---- MODULE Spec2Model ----
(***************************************************************************)
(* Model of dadmin (src/dadmin.py): the RCON connection handling of        *)
(* MinecraftAdminApp as it runs on the single-threaded Tk event loop.      *)
(*                                                                         *)
(* Text is modelled as sequences of one-character strings so that          *)
(* str.strip() and int() are computed, not assumed.  A handler that is     *)
(* running is a frame on `stack`; the event loop dispatches a new event    *)
(* only when no handler is running, or when the running handler sits in a  *)
(* modal messagebox (which runs a nested event loop in which timers still  *)
(* fire).                                                                  *)
(*                                                                         *)
(* Not modelled: the "Test Connection" button of the settings window,      *)
(* which probes and logs in on a session of its own (test_mcr) that        *)
(* self.mcr never holds, and the widgets' layout.                          *)
(***************************************************************************)
EXTENDS Integers, Sequences, FiniteSets, TLC

VARIABLES
    configFile,        \* server_config.txt on disk
    config,            \* self.config
    mcr,               \* self.mcr: None or a session
    sess,              \* every session object: "unused", "open" or "closed"
    failed,            \* sessions self.mcr has held on which a command raised
    inflight,          \* commands sent on a session that have not returned
    stack,             \* frames of the handlers that are running
    running,           \* the process is alive (mainloop or __init__)
    uncaught,          \* exception that escaped a handler, "none" if none did
    pollPending,       \* pending root.after timers of schedule_player_refresh
    status,            \* text of server_status_label
    reconnectEnabled,  \* reconnect_btn is in state "normal"
    settingsOpen,      \* the settings window (modal, grab_set) is open
    statusBar,         \* style of the message in self.status
    lastResult,        \* what the last execute_rcon_command call returned
    currentPlayers,    \* self.current_players
    playerVar,         \* self.player_var
    playersDisplay,    \* text of players_display
    probeIn,           \* inputs of two test_connection calls (SpecProbe)
    probeOut,          \* their results (SpecProbe)
    typedData,         \* TYPED_DATA: the catalogs load_data built
    matcher,           \* the ratio the installed string matcher gives a label
    searchIn,          \* arguments of a fuzzy_search_data call (SpecSearch)
    searchOut,         \* what the call returned (SpecSearch)
    dataFiles,         \* data/items.json, effects.json, enchantments.json
    lookup,            \* a get_minecraft_id call for a catalog entry
    actionType,        \* self.action_type_var: "item" or "effect"
    actionSearch,      \* text of action_search_entry
    actionTree,        \* rows of action_result_tree
    actionSel,         \* the selected row of action_result_tree, 0 if none
    applyEnchants,     \* self.apply_enchants_var
    enchantSearch,     \* text of enchant_search_entry
    enchantSuggestions,\* rows of enchant_suggestions
    enchantSel,        \* the selected row of enchant_suggestions, 0 if none
    selectedEnchantments, \* self.selected_enchantments
    cmdLog,            \* commands the handler that ran last has sent
    answer,            \* the frames the server sends in answer to a command
    arrived,           \* how many of them have reached the socket
    readPos,           \* how many of them mcr.command has read
    rxText,            \* the text mcr.command has put together (in_data)
    cmdOut,            \* what execute_rcon_command returned (SpecSession)
    knownLocations,    \* self.known_locations
    teleportDest,      \* self.teleport_dest_var
    teleportMap        \* self.teleport_destination_map, in insertion order

vars == <<configFile, config, mcr, sess, failed, inflight, stack, running,
          uncaught, pollPending, status, reconnectEnabled, settingsOpen,
          statusBar, lastResult, currentPlayers, playerVar, playersDisplay,
          probeIn, probeOut, typedData, matcher, searchIn, searchOut,
          dataFiles, lookup, actionType, actionSearch, actionTree, actionSel,
          applyEnchants, enchantSearch, enchantSuggestions, enchantSel,
          selectedEnchantments, cmdLog, answer, arrived, readPos, rxText,
          cmdOut, knownLocations, teleportDest, teleportMap>>

-----------------------------------------------------------------------------
(* Bounds *)

MaxSessions == 2

\* Longest catalog and largest limit of a search (SpecSearch).
MaxCatalog == 3

MaxLimit == 3

\* Most records in a catalog file (SpecCatalog).
MaxRecords == 2

\* Most frames in the answer to a command (SpecSession).
MaxFrames == 3

\* Most destinations the teleport box offers (SpecTeleport).
MaxOptions == 3

None == 0

SessionIds == 1..MaxSessions

-----------------------------------------------------------------------------
(* Text *)

DigitChars == <<"0", "1", "2", "3", "4", "5", "6", "7", "8", "9">>

IsDigit(c) == \E i \in 1..10 : DigitChars[i] = c

DigitVal(c) == (CHOOSE i \in 1..10 : DigitChars[i] = c) - 1

IsSpace(c) == c = " "

RECURSIVE LStrip(_)
LStrip(s) ==
    IF s # <<>> /\ IsSpace(Head(s)) THEN LStrip(Tail(s)) ELSE s

RECURSIVE RStrip(_)
RStrip(s) ==
    IF s # <<>> /\ IsSpace(s[Len(s)]) THEN RStrip(SubSeq(s, 1, Len(s) - 1)) ELSE s

\* str.strip()
Strip(s) == RStrip(LStrip(s))

RECURSIVE DigitsValue(_)
DigitsValue(s) ==
    IF s = <<>> THEN 0
    ELSE 10 * DigitsValue(SubSeq(s, 1, Len(s) - 1)) + DigitVal(s[Len(s)])

\* int(s): surrounding whitespace and one sign are accepted, then digits only.
\* [ok |-> FALSE] stands for ValueError.
ParseInt(s) ==
    LET t == Strip(s)
        signed == t # <<>> /\ Head(t) \in {"+", "-"}
        d == IF signed THEN Tail(t) ELSE t
    IN IF d # <<>> /\ \A i \in 1..Len(d) : IsDigit(d[i])
       THEN [ok |-> TRUE,
             val |-> IF signed /\ Head(t) = "-" THEN 0 - DigitsValue(d)
                     ELSE DigitsValue(d)]
       ELSE [ok |-> FALSE, val |-> 0]

\* Letters: UpperChars[i] is the capital of LowerChars[i].
LowerChars == <<"a", "b", "z">>

UpperChars == <<"A", "B", "Z">>

IsLower(c) == \E i \in 1..Len(LowerChars) : LowerChars[i] = c

IsUpper(c) == \E i \in 1..Len(UpperChars) : UpperChars[i] = c

\* str.lower() of one character.
ToLower(c) ==
    IF IsUpper(c)
    THEN LowerChars[CHOOSE i \in 1..Len(UpperChars) : UpperChars[i] = c]
    ELSE c

\* str.lower()
Lower(s) == [i \in 1..Len(s) |-> ToLower(s[i])]

\* A character the regular expression \w matches.
IsWordChar(c) == IsLower(c) \/ IsUpper(c) \/ IsDigit(c) \/ c = "_"

-----------------------------------------------------------------------------
(* Configuration file *)

\* Values a key of server_config.txt may hold; a missing key reads like an
\* empty value everywhere the program uses it (config.get(key) is falsy).
HostValues == {<<>>, <<"h">>}

PortValues == {<<>>, <<"7">>, <<"a">>, <<"-", "7">>}

PasswordValues == {<<>>, <<"p">>}

NoFile == [found |-> FALSE, host |-> <<>>, port |-> <<>>, password |-> <<>>]

InitialFiles ==
    {NoFile} \cup
    { [found |-> TRUE, host |-> <<"h">>, port |-> p, password |-> <<"p">>] :
        p \in PortValues } \cup
    { [found |-> TRUE, host |-> <<>>, port |-> <<"7">>, password |-> <<"p">>],
      [found |-> TRUE, host |-> <<"h">>, port |-> <<"7">>, password |-> <<>>] }

\* load_config: every line is stripped, then split at the first "=", so a
\* value loses the whitespace at its end.
LoadConfig(file) ==
    IF ~file.found THEN NoFile
    ELSE [found |-> TRUE,
          host |-> RStrip(file.host),
          port |-> RStrip(file.port),
          password |-> RStrip(file.password)]

-----------------------------------------------------------------------------
(* Network operations *)

\* What the network does to a TCP connect: it succeeds, the name does not
\* resolve, the peer refuses, or nothing answers within the timeout.
NetOutcomes == {"ok", "dns", "refused", "timeout"}

\* test_connection(host, port): gethostbyname, then connect_ex, whose result
\* is 0 or an errno (ECONNREFUSED on a refusal, EWOULDBLOCK on a timeout); a
\* port outside the range makes connect_ex raise OverflowError.
TestConnection(host, port, net) ==
    IF net = "dns"
    THEN [ok |-> FALSE, msg |-> <<"DNS resolution failed for", host>>]
    ELSE IF port \notin 0..65535
    THEN [ok |-> FALSE, msg |-> <<"Connection test failed">>]
    ELSE IF net = "ok"
    THEN [ok |-> TRUE, msg |-> <<"Connection successful">>]
    ELSE [ok |-> FALSE, msg |-> <<"Port is not accessible", port>>]

\* The server's answer to the login packet: its request id, its packet type
\* and its body.
AuthReplies ==
    {[got |-> TRUE, id |-> 0 - 1, type |-> 2, body |-> <<>>],
     [got |-> TRUE, id |-> 0 - 1, type |-> 0, body |-> <<"x">>],
     [got |-> TRUE, id |-> 0, type |-> 2, body |-> <<>>],
     [got |-> TRUE, id |-> 7, type |-> 0, body |-> <<"x">>]}

NoReply == [got |-> FALSE, id |-> 0, type |-> 0, body |-> <<>>]

\* What happens to MCRcon(...).connect(): the transport fails with an error
\* text and no answer is read, or the server answers the login packet.
HandshakeOutcomes ==
    {[error |-> e, reply |-> NoReply] :
        e \in {"Authentication failed", "Connection refused"}}
    \cup {[error |-> "none", reply |-> r] : r \in AuthReplies}

\* The login inside connect() (mcrcon package): an answer with request id -1
\* raises MCRconException("Login failed"), whatever its type and body; any
\* other request id is a success.
Authenticate(reply) ==
    IF reply.id = 0 - 1 THEN "Login failed" ELSE "ok"

\* What connect() does: returns ("ok"), or raises with this text.
ConnectResult(outcome) ==
    IF outcome.error # "none" THEN outcome.error
    ELSE Authenticate(outcome.reply)

\* The dialog connect_rcon shows for an exception of the handshake, chosen by
\* the substrings of str(e).lower().
HandshakeDialog(e) ==
    IF e \in {"Authentication failed", "Invalid password"}
    THEN "RCON Authentication Failed"
    ELSE IF e = "Connection refused"
    THEN "Connection Refused by Server"
    ELSE "RCON Connection Error"

\* What mcr.command() does: returns the response, or raises.
CommandOutcomes == {"ok", "raise"}

\* A call of execute_rcon_command: what it returned (success, msg), or that
\* it raised; what mcr.command did (outcome) and whether it was called (sent).
NoResult ==
    [success |-> FALSE, msg |-> "none", raised |-> FALSE, outcome |-> "none",
     sent |-> FALSE]

\* execute_rcon_command without its try/except: the exception of mcr.command
\* goes up to the caller.
ExecuteRconCommandUnguarded(m, outcome) ==
    IF m = None
    THEN [success |-> FALSE, msg |-> "No server connection", raised |-> FALSE,
          outcome |-> "none", sent |-> FALSE]
    ELSE IF outcome = "ok"
    THEN [success |-> TRUE, msg |-> "response", raised |-> FALSE,
          outcome |-> outcome, sent |-> TRUE]
    ELSE [success |-> FALSE, msg |-> "none", raised |-> TRUE,
          outcome |-> outcome, sent |-> TRUE]

\* execute_rcon_command(mcr, command): `outcome` is what mcr.command did, and
\* is not looked at when there is no session.
ExecuteRconCommand(m, outcome) ==
    IF m = None
    THEN [success |-> FALSE, msg |-> "No server connection", raised |-> FALSE,
          outcome |-> "none", sent |-> FALSE]
    ELSE IF outcome = "ok"
    THEN [success |-> TRUE, msg |-> "response", raised |-> FALSE,
          outcome |-> outcome, sent |-> TRUE]
    ELSE [success |-> FALSE, msg |-> "error text", raised |-> FALSE,
          outcome |-> outcome, sent |-> TRUE]

-----------------------------------------------------------------------------
(* The player list *)

Players == {"a", "b"}

\* The pieces of the text after "online: " split at commas; "" is a piece
\* that is empty once stripped.
ListResponses == {<<"">>, <<"a">>, <<"b">>, <<"a", "b">>}

RECURSIVE NonEmptyPieces(_)
NonEmptyPieces(r) ==
    IF r = <<>> THEN <<>>
    ELSE IF Head(r) = "" THEN NonEmptyPieces(Tail(r))
    ELSE <<Head(r)>> \o NonEmptyPieces(Tail(r))

Min(a, b) == IF a < b THEN a ELSE b

\* A text of players_display that names no players ("Loading...", ...).
FixedText(text) == [fixed |-> text, count |-> 0, names |-> <<>>, more |-> 0]

\* The text update_players puts in players_display for a player list.
PlayerText(players) ==
    IF players # <<>>
    THEN [fixed |-> "", count |-> Len(players),
          names |-> SubSeq(players, 1, Min(3, Len(players))),
          more |-> IF Len(players) > 3 THEN Len(players) - 3 ELSE 0]
    ELSE [fixed |-> "", count |-> 0, names |-> <<>>, more |-> 0]

InSeq(x, s) == \E i \in 1..Len(s) : s[i] = x

-----------------------------------------------------------------------------
(* Catalogs and fuzzy search *)

\* The catalog types load_data reads.
DataTypes == {"item", "effect", "enchantment"}

\* TYPED_DATA with every catalog empty.
NoData == [t \in DataTypes |-> <<>>]

\* How many lowercase letters s begins with.
RECURSIVE LowerRun(_)
LowerRun(s) ==
    IF s # <<>> /\ IsLower(Head(s)) THEN 1 + LowerRun(Tail(s)) ELSE 0

\* re.sub("(.)([A-Z][a-z]+)", r"\1_\2", s): leftmost matches, not overlapping.
RECURSIVE CamelWords(_)
CamelWords(s) ==
    IF Len(s) < 3 THEN s
    ELSE IF IsUpper(s[2]) /\ IsLower(s[3])
    THEN LET n == LowerRun(SubSeq(s, 3, Len(s)))
         IN <<s[1], "_">> \o SubSeq(s, 2, 2 + n)
               \o CamelWords(SubSeq(s, 3 + n, Len(s)))
    ELSE <<s[1]>> \o CamelWords(Tail(s))

\* re.sub("([a-z0-9])([A-Z])", r"\1_\2", s)
RECURSIVE CamelHumps(_)
CamelHumps(s) ==
    IF Len(s) < 2 THEN s
    ELSE IF (IsLower(s[1]) \/ IsDigit(s[1])) /\ IsUpper(s[2])
    THEN <<s[1], "_", s[2]>> \o CamelHumps(SubSeq(s, 3, Len(s)))
    ELSE <<s[1]>> \o CamelHumps(Tail(s))

\* camel_to_snake_case(name)
CamelToSnakeCase(name) == Lower(CamelHumps(CamelWords(name)))

\* A catalog file: missing, not JSON, or a list of records.  A record has
\* some of the keys name, displayName and type.  An identifier is modelled by
\* the text behind its constant prefix "minecraft:".
RawRecords ==
    {[keys |-> {"name", "displayName"}, name |-> <<"A", "b", "A", "b">>,
      displayName |-> <<"A">>, type |-> "good"],
     [keys |-> {"name", "displayName", "type"}, name |-> <<"a", "B">>,
      displayName |-> <<"A">>, type |-> "bad"],
     [keys |-> {"name", "displayName"}, name |-> <<"b">>,
      displayName |-> <<"b">>, type |-> "good"],
     [keys |-> {"name"}, name |-> <<"a">>, displayName |-> <<>>,
      type |-> "good"]}

FileContents == UNION {[1..n -> RawRecords] : n \in 0..MaxRecords}

CatalogFiles ==
    {[state |-> "missing", raw |-> <<>>], [state |-> "malformed", raw |-> <<>>]}
    \cup {[state |-> "present", raw |-> r] : r \in FileContents}

NoFiles == [t \in DataTypes |-> [state |-> "missing", raw |-> <<>>]]

\* The records of a file that have both keys, in file order.
Complete(raw) ==
    SelectSeq(raw, LAMBDA e : {"name", "displayName"} \subseteq e.keys)

\* The list load_data builds from the records of a file.
CatalogOf(typename, raw) ==
    LET kept == Complete(raw)
    IN [i \in 1..Len(kept) |->
          IF typename = "effect"
          THEN [label |-> kept[i].displayName,
                id |-> CamelToSnakeCase(kept[i].name),
                kind |-> IF "type" \in kept[i].keys THEN kept[i].type
                         ELSE "good"]
          ELSE [label |-> kept[i].displayName,
                id |-> CamelToSnakeCase(kept[i].name)]]

\* TYPED_DATA before load_data has run (line 152).
Unloaded == [t \in {} |-> <<>>]

\* TYPED_DATA.get(data_type, [])
TypedDataGet(dataType) ==
    IF dataType \in DOMAIN typedData THEN typedData[dataType] ELSE <<>>

\* [entry[0] for entry in entries]
Labels(entries) == [i \in 1..Len(entries) |-> entries[i].label]

\* The processor extractBests applies to the query and to every choice
\* (fuzzywuzzy's full_process): what \W matches becomes a space, the text is
\* lowercased, then stripped.
FullProcess(s) ==
    Strip([i \in 1..Len(s) |-> IF IsWordChar(s[i]) THEN ToLower(s[i]) ELSE " "])

\* Ratios the string matcher may give two texts that differ.
ScoreValues == {0, 30, 60, 100}

\* The last entry of a catalog that has this display name (a dict built from
\* the entries keeps the last of equal keys).
LastNamed(entries, displayName) ==
    CHOOSE i \in 1..Len(entries) :
        /\ entries[i].label = displayName
        /\ \A j \in i + 1..Len(entries) : entries[j].label # displayName

\* get_minecraft_id(display_name, data_type): the identifier of the entry
\* with this display name, else the name lowercased with "_" for " ".
GetMinecraftId(displayName, dataType) ==
    LET entries == TypedDataGet(dataType)
    IN IF InSeq(displayName, Labels(entries))
       THEN entries[LastNamed(entries, displayName)].id
       ELSE [i \in 1..Len(displayName) |->
                IF displayName[i] = " " THEN "_" ELSE ToLower(displayName[i])]

\* fuzz.partial_ratio(s1, s2) under its decorators: equal texts score 100,
\* otherwise an empty text scores 0, otherwise the best ratio over the
\* alignments of the shorter text in the longer, which the matcher of the
\* installed build computes (difflib or python-Levenshtein): `matcher`.
PartialRatio(s1, s2) ==
    IF s1 = s2 THEN 100
    ELSE IF s1 = <<>> \/ s2 = <<>> THEN 0
    ELSE matcher[s2]

\* An insertion that puts x before the results of equal score.
InsertByScoreUnstable(x, sorted) ==
    LET k == Cardinality({i \in 1..Len(sorted) : sorted[i].score > x.score})
    IN SubSeq(sorted, 1, k) \o <<x>> \o SubSeq(sorted, k + 1, Len(sorted))

\* x put into a sequence sorted by score, highest first, behind the results
\* that score the same.
InsertByScore(x, sorted) ==
    LET k == Cardinality({i \in 1..Len(sorted) : sorted[i].score >= x.score})
    IN SubSeq(sorted, 1, k) \o <<x>> \o SubSeq(sorted, k + 1, Len(sorted))

\* sorted(results, key=score, reverse=True): a stable sort.
RECURSIVE SortedByScore(_)
SortedByScore(results) ==
    IF results = <<>> THEN <<>>
    ELSE InsertByScore(results[Len(results)],
                       SortedByScore(SubSeq(results, 1, Len(results) - 1)))

\* heapq.nlargest(n, results, key=score), which is
\* sorted(results, key=score, reverse=True)[:n].
NLargest(n, results) ==
    SubSeq(SortedByScore(results), 1, Min(n, Len(results)))

\* The (label, score) pairs extractWithoutOrder yields: one per choice, in
\* the order of the choices (score_cutoff is 0, which every score reaches).
Scored(query, labels) ==
    [i \in 1..Len(labels) |->
        [label |-> labels[i],
         score |-> PartialRatio(FullProcess(query), FullProcess(labels[i]))]]

\* An extractBests that ranks only the first `limit` choices.
ExtractBestsFirstLimit(query, labels, limit) ==
    SortedByScore(SubSeq(Scored(query, labels), 1, Min(limit, Len(labels))))

\* process.extractBests(query, labels, scorer=fuzz.partial_ratio, limit=limit)
ExtractBests(query, labels, limit) ==
    NLargest(limit, Scored(query, labels))

\* fuzzy_search_data with the filter `score >= min_score`.
FuzzySearchDataInclusive(query, dataType, limit, minScore) ==
    LET results == ExtractBests(query, Labels(TypedDataGet(dataType)), limit)
    IN SelectSeq(results, LAMBDA r : r.score >= minScore)

\* fuzzy_search_data(query, data_type, limit, min_score)
FuzzySearchData(query, dataType, limit, minScore) ==
    LET entries == TypedDataGet(dataType)
        labels == Labels(entries)
        results == ExtractBests(query, labels, limit)
    IN SelectSeq(results, LAMBDA r : r.score > minScore)

\* Display names of the catalogs searched in SpecSearch.
SearchLabels == {<<"A">>, <<"b">>, <<"-">>}

\* What full_process leaves of them, the empty text aside.
ProcessedLabels == {FullProcess(l) : l \in SearchLabels} \ {<<>>}

NoMatcher == [l \in ProcessedLabels |-> 0]

NoSearch == [query |-> <<>>, dataType |-> "item", limit |-> 0, minScore |-> 0]

\* No call was made yet.
NoOutput == [done |-> FALSE, res |-> <<>>]

-----------------------------------------------------------------------------
(* Frames *)

\* A running handler: which one (h), where it is (pc), and the locals of
\* connect_rcon: whether the probe and the handshake were made and how they
\* ended, the probe's diagnostic, the session to return (res), the last
\* messagebox shown (dlg) and where the handler goes on after it (cont).
Frame(h, pc) ==
    [h |-> h, pc |-> pc, res |-> None, probed |-> "no", shook |-> "no",
     diag |-> <<>>, dlg |-> "none", cont |-> "none", reply |-> NoReply]

Top == stack[Len(stack)]

Rest == SubSeq(stack, 1, Len(stack) - 1)

SetTop(f) == stack' = Rest \o <<f>>

Pop == stack' = Rest

\* Timers that run on a thread of their own, whatever the handlers do.
CanDispatchThreaded == running

\* The event loop takes the next event: no handler is running, or the running
\* handler waits in a messagebox.
CanDispatch ==
    running /\ (IF stack = <<>> THEN TRUE ELSE Top.pc = "dialog")

\* The operator can use the main window: no handler runs, no modal window.
MainWindowFree ==
    running /\ stack = <<>> /\ ~settingsOpen

\* The operator can use the settings window.
SettingsWindowFree ==
    running /\ stack = <<>> /\ settingsOpen

At(pc) == stack # <<>> /\ Top.pc = pc

-----------------------------------------------------------------------------
(* Start-up *)

cfgVars == <<configFile, config>>

netVars == <<sess, failed, inflight>>

procVars == <<running, uncaught>>

playerVars == <<currentPlayers, playerVar, playersDisplay>>

searchVars == <<typedData, matcher, searchIn, searchOut>>

\* The variables of the specifications that check one function alone.
catalogVars == <<dataFiles, lookup>>

giveVars == <<actionType, actionSearch, actionTree, actionSel, applyEnchants,
              enchantSearch, enchantSuggestions, enchantSel,
              selectedEnchantments, cmdLog>>

sessionVars == <<answer, arrived, readPos, rxText, cmdOut>>

teleportVars == <<knownLocations, teleportDest, teleportMap>>

probeVars == <<probeIn, probeOut, searchVars, catalogVars, giveVars,
               sessionVars, teleportVars>>

NoProbe == [host |-> <<>>, port |-> 0, net1 |-> "ok", net2 |-> "ok"]

\* No probe is being checked.
ProbeIdle == probeIn = NoProbe /\ probeOut = <<>>

\* No search is being checked.
SearchIdle ==
    /\ typedData = NoData
    /\ matcher = NoMatcher
    /\ searchIn = NoSearch
    /\ searchOut = NoOutput

NoLookup == [done |-> FALSE, type |-> "item", index |-> 0, id |-> <<>>]

\* No catalog file is being looked at.
CatalogIdle == dataFiles = NoFiles /\ lookup = NoLookup

\* The "Give Items & Effects" and "Enchantments" panels as setup_gui leaves
\* them.
PanelsIdle ==
    /\ actionType = "item"
    /\ actionSearch = <<>>
    /\ actionTree = <<>>
    /\ actionSel = 0
    /\ applyEnchants = FALSE
    /\ enchantSearch = <<>>
    /\ enchantSuggestions = <<>>
    /\ enchantSel = 0
    /\ selectedEnchantments = <<>>
    /\ cmdLog = <<>>

NoCmdOut == [done |-> FALSE, success |-> FALSE, text |-> <<>>]

\* No command's answer is being read.
SessionIdle ==
    /\ answer = <<>>
    /\ arrived = 0
    /\ readPos = 0
    /\ rxText = <<>>
    /\ cmdOut = NoCmdOut

\* The teleport controls are not looked at.
TeleportIdle ==
    /\ knownLocations = <<>>
    /\ teleportDest = <<>>
    /\ teleportMap = <<>>

\* The process starts: load_config has run and __init__ is about to call
\* connect_rcon (no session is passed in by __main__).
Init ==
    /\ configFile \in InitialFiles
    /\ config = LoadConfig(configFile)
    /\ mcr = None
    /\ sess = [s \in SessionIds |-> "unused"]
    /\ failed = {}
    /\ inflight = {}
    /\ stack = <<Frame("init", "connect_rcon")>>
    /\ running = TRUE
    /\ uncaught = "none"
    /\ pollPending = 0
    /\ status = "unset"
    /\ reconnectEnabled = TRUE
    /\ settingsOpen = FALSE
    /\ statusBar = ""
    /\ lastResult = NoResult
    /\ currentPlayers = <<>>
    /\ playerVar = ""
    /\ playersDisplay = FixedText("unset")
    /\ ProbeIdle
    /\ SearchIdle
    /\ CatalogIdle
    /\ PanelsIdle
    /\ SessionIdle
    /\ TeleportIdle

-----------------------------------------------------------------------------
(* connect_rcon, run by __init__, reconnect_rcon and save_and_close *)

MissingSettings ==
    \/ ~config.found
    \/ config.host = <<>>
    \/ config.port = <<>>
    \/ config.password = <<>>

\* An exception leaves the handler on top of the stack: out of __init__ it
\* ends the process, out of a Tk callback it is reported and the loop goes on.
Raise(e) ==
    /\ uncaught' = e
    /\ IF Top.h = "init"
       THEN running' = FALSE /\ stack' = <<>>
       ELSE running' = running /\ Pop

\* connect_rcon without its two early returns: it goes on to the probe
\* whatever the configuration holds.
ConnectRconUnchecked ==
    /\ At("connect_rcon")
    /\ IF ~ParseInt(config.port).ok
       THEN Raise("ValueError")
       ELSE SetTop([Top EXCEPT !.pc = "probe"]) /\ UNCHANGED procVars
    /\ UNCHANGED <<cfgVars, mcr, netVars, pollPending, status, reconnectEnabled,
                   settingsOpen, statusBar, lastResult, playerVars, probeVars>>

\* connect_rcon up to the call of test_connection.
ConnectRcon ==
    /\ At("connect_rcon")
    /\ IF MissingSettings
       THEN SetTop([Top EXCEPT !.pc = "after_connect", !.res = None])
            /\ UNCHANGED procVars
       ELSE IF ~ParseInt(config.port).ok
       THEN Raise("ValueError")
       ELSE SetTop([Top EXCEPT !.pc = "probe"]) /\ UNCHANGED procVars
    /\ UNCHANGED <<cfgVars, mcr, netVars, pollPending, status, reconnectEnabled,
                   settingsOpen, statusBar, lastResult, playerVars, probeVars>>

\* connect_rcon without its `if not can_connect` branch.
ProbeReturnIgnored(net) ==
    /\ At("probe")
    /\ LET r == TestConnection(config.host, ParseInt(config.port).val, net)
       IN SetTop([Top EXCEPT !.pc = "handshake", !.diag = r.msg,
                             !.probed = IF r.ok THEN "ok" ELSE "failed"])
    /\ UNCHANGED <<cfgVars, mcr, netVars, procVars, pollPending, status,
                   reconnectEnabled, settingsOpen, statusBar, lastResult,
                   playerVars, probeVars>>

\* test_connection returns; a failed probe shows the diagnostic and returns
\* None, a successful one goes on to the handshake.
ProbeReturn(net) ==
    /\ At("probe")
    /\ LET r == TestConnection(config.host, ParseInt(config.port).val, net)
       IN IF r.ok
          THEN SetTop([Top EXCEPT !.pc = "handshake", !.probed = "ok",
                                  !.diag = r.msg])
          ELSE SetTop([Top EXCEPT !.pc = "dialog", !.probed = "failed",
                                  !.diag = r.msg, !.res = None,
                                  !.dlg = "RCON Connection Failed",
                                  !.cont = "after_connect"])
    /\ UNCHANGED <<cfgVars, mcr, netVars, procVars, pollPending, status,
                   reconnectEnabled, settingsOpen, statusBar, lastResult,
                   playerVars, probeVars>>

FreeSession == CHOOSE s \in SessionIds : sess[s] = "unused"

\* MCRcon(host, password, port).connect() returns or raises.
HandshakeReturn(outcome) ==
    /\ At("handshake")
    /\ IF ConnectResult(outcome) = "ok"
       THEN /\ \E s \in SessionIds : sess[s] = "unused"
            /\ sess' = [sess EXCEPT ![FreeSession] = "open"]
            /\ SetTop([Top EXCEPT !.pc = "after_connect", !.shook = "ok",
                                  !.res = FreeSession,
                                  !.reply = outcome.reply])
       ELSE /\ sess' = sess
            /\ SetTop([Top EXCEPT !.pc = "dialog", !.shook = "failed",
                                  !.res = None,
                                  !.dlg = HandshakeDialog(ConnectResult(outcome)),
                                  !.cont = "after_connect",
                                  !.reply = outcome.reply])
    /\ UNCHANGED <<cfgVars, mcr, failed, inflight, procVars, pollPending, status,
                   reconnectEnabled, settingsOpen, statusBar, lastResult,
                   playerVars, probeVars>>

\* The operator closes the messagebox on top; the handler goes on.
DismissDialog ==
    /\ At("dialog")
    /\ IF Top.cont = "after_connect"
       THEN SetTop([Top EXCEPT !.pc = "after_connect"]) /\ UNCHANGED settingsOpen
       ELSE IF Top.cont = "save_close"
       THEN Pop /\ settingsOpen' = FALSE
       ELSE Pop /\ UNCHANGED settingsOpen
    /\ UNCHANGED <<cfgVars, mcr, netVars, procVars, pollPending, status,
                   reconnectEnabled, statusBar, lastResult, playerVars,
                   probeVars>>

\* A status that reads Connected whatever the attempt returned.
StatusOfOptimistic(m) == "Connected"

\* The text the callers of connect_rcon put in server_status_label.
StatusOf(m) == IF m # None THEN "Connected" ELSE "Disconnected"

\* self.mcr = <result of connect_rcon>: the session held before is dropped,
\* without disconnect().
AssignMcr(m) ==
    /\ mcr' = m
    /\ failed' = IF m = mcr THEN failed ELSE failed \ {mcr}

\* __init__ after connect_rcon: setup_gui, the missing-file message, and the
\* first schedule_player_refresh.
InitAfterConnect ==
    /\ At("after_connect") /\ Top.h = "init"
    /\ AssignMcr(Top.res)
    /\ status' = StatusOf(Top.res)
    /\ playersDisplay' = FixedText("Loading...")
    /\ statusBar' = IF ~config.found THEN "danger" ELSE statusBar
    /\ SetTop([Top EXCEPT !.pc = "update_players"])
    /\ UNCHANGED <<cfgVars, sess, inflight, procVars, pollPending,
                   reconnectEnabled, settingsOpen, lastResult, currentPlayers,
                   playerVar, probeVars>>

\* reconnect_rcon after connect_rcon.
ReconnectAfterConnect ==
    /\ At("after_connect") /\ Top.h = "reconnect"
    /\ AssignMcr(Top.res)
    /\ status' = StatusOf(Top.res)
    /\ reconnectEnabled' = TRUE
    /\ Pop
    /\ UNCHANGED <<cfgVars, sess, inflight, procVars, pollPending, settingsOpen,
                   statusBar, lastResult, playerVars, probeVars>>

\* save_and_close after connect_rcon: the status, then the "Settings" box.
SaveAfterConnect ==
    /\ At("after_connect") /\ Top.h = "save"
    /\ AssignMcr(Top.res)
    /\ status' = StatusOf(Top.res)
    /\ SetTop([Top EXCEPT !.pc = "dialog", !.dlg = "Settings",
                          !.cont = "save_close"])
    /\ UNCHANGED <<cfgVars, sess, inflight, procVars, pollPending,
                   reconnectEnabled, settingsOpen, statusBar, lastResult,
                   playerVars, probeVars>>

-----------------------------------------------------------------------------
(* The periodic poll *)

\* A schedule_player_refresh that sets two timers.
RootAfterTwice == pollPending + 2

\* root.after(5000, self.schedule_player_refresh) at the end of
\* schedule_player_refresh: one more timer is pending.
RootAfter == pollPending + 1

\* A timer of schedule_player_refresh fires and update_players starts.
TimerFire ==
    /\ CanDispatch
    /\ pollPending > 0
    /\ pollPending' = pollPending - 1
    /\ stack' = stack \o <<Frame("poll", "update_players")>>
    /\ UNCHANGED <<cfgVars, mcr, netVars, procVars, status, reconnectEnabled,
                   settingsOpen, statusBar, lastResult, playerVars, probeVars>>

\* update_players that connects by itself when it finds no session.
UpdatePlayersAutoRetry ==
    /\ At("update_players")
    /\ IF mcr = None
       THEN /\ SetTop([Top EXCEPT !.pc = "connect_rcon"])
            /\ UNCHANGED inflight
       ELSE /\ inflight' = inflight \cup {[s |-> mcr, cmd |-> "list"]}
            /\ SetTop([Top EXCEPT !.pc = "cmd_wait"])
    /\ UNCHANGED <<cfgVars, mcr, sess, failed, procVars, pollPending, status,
                   reconnectEnabled, settingsOpen, statusBar, lastResult,
                   playerVars, probeVars>>

\* update_players up to the call of mcr.command("list"); without a session it
\* ends here and schedule_player_refresh sets the next timer.
UpdatePlayers ==
    /\ At("update_players")
    /\ IF mcr = None
       THEN /\ status' = "Disconnected"
            /\ playersDisplay' = FixedText("No Connection")
            /\ pollPending' = RootAfter
            /\ Pop
            /\ UNCHANGED inflight
       ELSE /\ inflight' = inflight \cup {[s |-> mcr, cmd |-> "list"]}
            /\ SetTop([Top EXCEPT !.pc = "cmd_wait"])
            /\ UNCHANGED <<status, playersDisplay, pollPending>>
    /\ UNCHANGED <<cfgVars, mcr, sess, failed, procVars, reconnectEnabled,
                   settingsOpen, statusBar, lastResult, currentPlayers,
                   playerVar, probeVars>>

\* A selection that always goes to the first player of a new list.
NextSelectionFirst(previous, players) ==
    IF players # <<>> THEN players[1] ELSE ""

\* The selection update_players keeps or makes for a new player list.
NextSelection(previous, players) ==
    IF InSeq(previous, players) THEN previous
    ELSE IF players # <<>> THEN players[1]
    ELSE ""

\* mcr.command("list") returns or raises; the rest of update_players (whose
\* except clause reports anything raised like a failed command), then
\* schedule_player_refresh sets the next timer.
PollReturn(out, resp) ==
    /\ At("cmd_wait") /\ Top.h \in {"init", "poll"}
    /\ LET r == ExecuteRconCommand(mcr, out)
           players == NonEmptyPieces(resp)
       IN /\ lastResult' = r
          /\ failed' = IF out = "raise" THEN failed \cup {mcr} ELSE failed
          /\ IF r.raised \/ ~r.success
             THEN /\ status' = "Connection Error"
                  /\ playersDisplay' = FixedText("Connection Error")
                  /\ UNCHANGED <<currentPlayers, playerVar>>
             ELSE IF players = currentPlayers
             THEN UNCHANGED <<status, playerVars>>
             ELSE /\ currentPlayers' = players
                  /\ playersDisplay' = PlayerText(players)
                  /\ playerVar' = NextSelection(playerVar, players)
                  /\ UNCHANGED status
    /\ inflight' = inflight \ {[s |-> mcr, cmd |-> "list"]}
    /\ pollPending' = RootAfter
    /\ Pop
    /\ UNCHANGED <<cfgVars, mcr, sess, procVars, reconnectEnabled, settingsOpen,
                   statusBar, probeVars>>

-----------------------------------------------------------------------------
(* Operator commands *)

QuickCommands == {"/time set day"}

\* send_quick_command up to mcr.command; without a session
\* execute_rcon_command returns at once and the handler ends.
SendQuickCommand(cmd) ==
    /\ MainWindowFree
    /\ IF mcr = None
       THEN /\ lastResult' = ExecuteRconCommand(mcr, "ok")
            /\ statusBar' = "danger"
            /\ UNCHANGED <<inflight, stack>>
       ELSE /\ inflight' = inflight \cup {[s |-> mcr, cmd |-> cmd]}
            /\ stack' = stack \o <<Frame("quick", "cmd_wait")>>
            /\ UNCHANGED <<lastResult, statusBar>>
    /\ UNCHANGED <<cfgVars, mcr, sess, failed, procVars, pollPending, status,
                   reconnectEnabled, settingsOpen, playerVars, probeVars>>

ChatTexts == {<<>>, <<" ">>, <<"x">>}

\* send_chat_message up to mcr.command.
SendChatMessage(text) ==
    /\ MainWindowFree
    /\ IF Strip(text) = <<>>
       THEN statusBar' = "warning" /\ UNCHANGED <<inflight, stack>>
       ELSE IF mcr = None
       THEN statusBar' = "danger" /\ UNCHANGED <<inflight, stack>>
       ELSE /\ inflight' = inflight \cup {[s |-> mcr, cmd |-> "/say"]}
            /\ stack' = stack \o <<Frame("say", "cmd_wait")>>
            /\ UNCHANGED statusBar
    /\ UNCHANGED <<cfgVars, mcr, sess, failed, procVars, pollPending, status,
                   reconnectEnabled, settingsOpen, lastResult, playerVars,
                   probeVars>>

\* mcr.command returns or raises in send_quick_command or send_chat_message;
\* the handler reports the result in the status bar and ends.  Neither handler
\* catches anything: an exception out of execute_rcon_command would escape.
CommandReturn(out) ==
    /\ At("cmd_wait") /\ Top.h \in {"quick", "say"}
    /\ LET r == ExecuteRconCommand(mcr, out)
       IN /\ lastResult' = r
          /\ IF r.raised
             THEN uncaught' = "Exception" /\ UNCHANGED statusBar
             ELSE /\ statusBar' = IF r.success THEN "success" ELSE "danger"
                  /\ UNCHANGED uncaught
    /\ failed' = IF out = "raise" THEN failed \cup {mcr} ELSE failed
    /\ inflight' = {c \in inflight : c.cmd = "list"}
    /\ Pop
    /\ UNCHANGED <<cfgVars, mcr, sess, running, pollPending, status,
                   reconnectEnabled, settingsOpen, playerVars, probeVars>>

\* select_player: a click on one of the rendered player buttons.
SelectPlayer(p) ==
    /\ MainWindowFree
    /\ InSeq(p, currentPlayers)
    /\ playerVar' = p
    /\ UNCHANGED <<cfgVars, mcr, netVars, stack, procVars, pollPending, status,
                   reconnectEnabled, settingsOpen, statusBar, lastResult,
                   currentPlayers, playersDisplay, probeVars>>

-----------------------------------------------------------------------------
(* Reconnect and settings *)

\* reconnect_rcon up to the call of connect_rcon.
ReconnectClick ==
    /\ MainWindowFree
    /\ reconnectEnabled
    /\ status' = "Connecting"
    /\ reconnectEnabled' = FALSE
    /\ stack' = stack \o <<Frame("reconnect", "connect_rcon")>>
    /\ UNCHANGED <<cfgVars, mcr, netVars, procVars, pollPending, settingsOpen,
                   statusBar, lastResult, playerVars, probeVars>>

OpenSettings ==
    /\ MainWindowFree
    /\ settingsOpen' = TRUE
    /\ UNCHANGED <<cfgVars, mcr, netVars, stack, procVars, pollPending, status,
                   reconnectEnabled, statusBar, lastResult, playerVars,
                   probeVars>>

CancelSettings ==
    /\ SettingsWindowFree
    /\ settingsOpen' = FALSE
    /\ UNCHANGED <<cfgVars, mcr, netVars, stack, procVars, pollPending, status,
                   reconnectEnabled, statusBar, lastResult, playerVars,
                   probeVars>>

\* What the operator may type in the settings window.
HostInputs == {<<>>, <<" ">>, <<"h">>}

PortInputs == {<<>>, <<"7">>, <<"a">>}

PasswordInputs == {<<>>, <<"p">>}

\* What writing server_config.txt does: it succeeds, open() fails, or a
\* write fails after open() has truncated the file.
SaveOutcomes == {"ok", "open_error", "write_error"}

EmptyFile == [found |-> TRUE, host |-> <<>>, port |-> <<>>, password |-> <<>>]

Box(title) ==
    [Frame("save", "dialog") EXCEPT !.dlg = title, !.cont = "return"]

\* save_and_close up to the call of connect_rcon, or to the messagebox that
\* ends it.
SaveAndClose(hostIn, portIn, passwordIn, io) ==
    /\ SettingsWindowFree
    /\ LET host == Strip(hostIn)
           port == Strip(portIn)
           written == [found |-> TRUE, host |-> host, port |-> port,
                       password |-> passwordIn]
       IN IF host = <<>> \/ port = <<>>
          THEN /\ stack' = stack \o <<Box("Host and Port are required!")>>
               /\ UNCHANGED <<cfgVars, status>>
          ELSE IF ~ParseInt(port).ok
          THEN /\ stack' = stack \o <<Box("Port must be a number!")>>
               /\ UNCHANGED <<cfgVars, status>>
          ELSE IF io # "ok"
          THEN /\ stack' = stack \o <<Box("Failed to save settings!")>>
               /\ configFile' = IF io = "write_error" THEN EmptyFile
                                ELSE configFile
               /\ UNCHANGED <<config, status>>
          ELSE /\ configFile' = written
               /\ config' = LoadConfig(written)
               /\ status' = "Connecting"
               /\ stack' = stack \o <<Frame("save", "connect_rcon")>>
    /\ UNCHANGED <<mcr, netVars, procVars, pollPending, reconnectEnabled,
                   settingsOpen, statusBar, lastResult, playerVars, probeVars>>

-----------------------------------------------------------------------------
(* Sessions nobody holds *)

Referenced(s) ==
    \/ mcr = s
    \/ \E i \in 1..Len(stack) : stack[i].res = s
    \/ \E c \in inflight : c.s = s

\* No handler calls disconnect(): a session the program no longer holds is
\* closed when the runtime finalizes its socket, whenever that is.
Finalize(s) ==
    /\ sess[s] = "open"
    /\ ~Referenced(s)
    /\ sess' = [sess EXCEPT ![s] = "unused"]
    /\ UNCHANGED <<cfgVars, mcr, failed, inflight, stack, procVars, pollPending, status,
                   reconnectEnabled, settingsOpen, statusBar, lastResult,
                   playerVars, probeVars>>

-----------------------------------------------------------------------------

Next ==
    \/ ConnectRcon
    \/ \E net \in NetOutcomes : ProbeReturn(net)
    \/ \E out \in HandshakeOutcomes : HandshakeReturn(out)
    \/ DismissDialog
    \/ InitAfterConnect
    \/ ReconnectAfterConnect
    \/ SaveAfterConnect
    \/ TimerFire
    \/ UpdatePlayers
    \/ \E out \in CommandOutcomes, resp \in ListResponses : PollReturn(out, resp)
    \/ \E cmd \in QuickCommands : SendQuickCommand(cmd)
    \/ \E text \in ChatTexts : SendChatMessage(text)
    \/ \E out \in CommandOutcomes : CommandReturn(out)
    \/ \E p \in Players : SelectPlayer(p)
    \/ ReconnectClick
    \/ OpenSettings
    \/ CancelSettings
    \/ \E h \in HostInputs, p \in PortInputs, w \in PasswordInputs,
          io \in SaveOutcomes : SaveAndClose(h, p, w, io)
    \/ \E s \in SessionIds : Finalize(s)

Spec == Init /\ [][Next]_vars

-----------------------------------------------------------------------------
(* test_connection on its own: two probes of one endpoint *)

ProbeHosts == {<<"h">>, <<"g">>}

ProbePorts == {7, 25575, 65536, 0 - 7}

\* The application is not running.
AppIdle ==
    /\ configFile = NoFile
    /\ config = NoFile
    /\ mcr = None
    /\ sess = [s \in SessionIds |-> "unused"]
    /\ failed = {}
    /\ inflight = {}
    /\ stack = <<>>
    /\ running = FALSE
    /\ uncaught = "none"
    /\ pollPending = 0
    /\ status = "unset"
    /\ reconnectEnabled = TRUE
    /\ settingsOpen = FALSE
    /\ statusBar = ""
    /\ lastResult = NoResult
    /\ currentPlayers = <<>>
    /\ playerVar = ""
    /\ playersDisplay = FixedText("unset")

InitProbe ==
    /\ AppIdle
    /\ SearchIdle
    /\ CatalogIdle
    /\ PanelsIdle
    /\ SessionIdle
    /\ TeleportIdle
    /\ probeIn \in [host : ProbeHosts, port : ProbePorts,
                    net1 : NetOutcomes, net2 : NetOutcomes]
    /\ probeOut = <<>>

RunProbes ==
    /\ probeOut = <<>>
    /\ probeOut' = <<TestConnection(probeIn.host, probeIn.port, probeIn.net1),
                     TestConnection(probeIn.host, probeIn.port, probeIn.net2)>>
    /\ UNCHANGED <<cfgVars, mcr, netVars, stack, procVars, pollPending, status,
                   reconnectEnabled, settingsOpen, statusBar, lastResult,
                   playerVars, probeIn, searchVars, catalogVars, giveVars,
                   sessionVars, teleportVars>>

NextProbe == RunProbes

SpecProbe == InitProbe /\ [][NextProbe]_vars

-----------------------------------------------------------------------------
(* fuzzy_search_data on its own: one call on one catalog *)

appVars == <<cfgVars, mcr, netVars, stack, procVars, pollPending, status,
             reconnectEnabled, settingsOpen, statusBar, lastResult, playerVars>>

\* A catalog entry as load_data builds it: (display name, identifier).
SearchEntries == {[label |-> l, id |-> Lower(l)] : l \in SearchLabels}

Catalogs == UNION {[1..n -> SearchEntries] : n \in 0..MaxCatalog}

Queries == {<<>>, <<"a">>, <<"B", " ">>}

\* A catalog type that is loaded and one that is not.
SearchTypes == {"item", "biome"}

MinScores == {0, 30, 100}

InitSearch ==
    /\ AppIdle
    /\ ProbeIdle
    /\ CatalogIdle
    /\ PanelsIdle
    /\ SessionIdle
    /\ TeleportIdle
    /\ typedData \in {[NoData EXCEPT !["item"] = c] : c \in Catalogs}
    /\ matcher \in [ProcessedLabels -> ScoreValues]
    /\ searchIn \in [query : Queries, dataType : SearchTypes,
                     limit : 0..MaxLimit, minScore : MinScores]
    /\ searchOut = NoOutput

RunSearch ==
    /\ ~searchOut.done
    /\ searchOut' = [done |-> TRUE,
                     res |-> FuzzySearchData(searchIn.query, searchIn.dataType,
                                             searchIn.limit, searchIn.minScore)]
    /\ UNCHANGED <<appVars, probeIn, probeOut, typedData, matcher, searchIn,
                   catalogVars, giveVars,
                   sessionVars, teleportVars>>

NextSearch == RunSearch

SpecSearch == InitSearch /\ [][NextSearch]_vars

-----------------------------------------------------------------------------
(* load_data at import, then get_minecraft_id for entries of the catalogs *)

\* Everything of the application but the exception that ended it.
appState == <<cfgVars, mcr, netVars, stack, running, pollPending, status,
              reconnectEnabled, settingsOpen, statusBar, lastResult, playerVars>>

InitCatalog ==
    /\ AppIdle
    /\ ProbeIdle
    /\ PanelsIdle
    /\ SessionIdle
    /\ TeleportIdle
    /\ matcher = NoMatcher /\ searchIn = NoSearch /\ searchOut = NoOutput
    /\ dataFiles \in {[NoFiles EXCEPT !["item"] = f, !["effect"] = g] :
                         f \in CatalogFiles, g \in CatalogFiles}
    /\ typedData = Unloaded
    /\ lookup = NoLookup

\* load_data without its except clause: a missing file ends the import.
LoadDataNoExcept ==
    /\ typedData = Unloaded /\ uncaught = "none"
    /\ IF \E t \in DataTypes : dataFiles[t].state # "present"
       THEN uncaught' = "FileNotFoundError" /\ UNCHANGED typedData
       ELSE /\ typedData' = [t \in DataTypes |-> CatalogOf(t, dataFiles[t].raw)]
            /\ UNCHANGED uncaught
    /\ UNCHANGED <<appState, probeIn, probeOut, matcher, searchIn, searchOut,
                   catalogVars, giveVars,
                   sessionVars, teleportVars>>

\* TYPED_DATA = load_data(): a missing file gives an empty catalog; a file
\* that is not JSON raises out of json.load and ends the import.
LoadData ==
    /\ typedData = Unloaded /\ uncaught = "none"
    /\ IF \E t \in DataTypes : dataFiles[t].state = "malformed"
       THEN uncaught' = "JSONDecodeError" /\ UNCHANGED typedData
       ELSE /\ typedData' =
                 [t \in DataTypes |->
                     IF dataFiles[t].state = "missing" THEN <<>>
                     ELSE CatalogOf(t, dataFiles[t].raw)]
            /\ UNCHANGED uncaught
    /\ UNCHANGED <<appState, probeIn, probeOut, matcher, searchIn, searchOut,
                   catalogVars, giveVars,
                   sessionVars, teleportVars>>

\* A search result shows the display name of entry `index` of a catalog and
\* the program resolves it with get_minecraft_id.
ResolveEntry(dataType, index) ==
    /\ typedData # Unloaded
    /\ index \in 1..Len(typedData[dataType])
    /\ lookup' = [done |-> TRUE, type |-> dataType, index |-> index,
                  id |-> GetMinecraftId(typedData[dataType][index].label,
                                        dataType)]
    /\ UNCHANGED <<appVars, probeIn, probeOut, searchVars, dataFiles, giveVars,
                   sessionVars, teleportVars>>

NextCatalog ==
    \/ LoadData
    \/ \E t \in DataTypes, i \in 1..MaxRecords : ResolveEntry(t, i)

SpecCatalog == InitCatalog /\ [][NextCatalog]_vars

-----------------------------------------------------------------------------
(* The "Give Items & Effects" and "Enchantments" panels *)

\* The catalog files of SpecGive: one record each, display names unique.
GiveFiles ==
    [t \in DataTypes |->
        IF t = "item"
        THEN <<[keys |-> {"name", "displayName"}, name |-> <<"a", "B">>,
                displayName |-> <<"A">>, type |-> "good"]>>
        ELSE IF t = "effect"
        THEN <<[keys |-> {"name", "displayName", "type"}, name |-> <<"b">>,
                displayName |-> <<"b">>, type |-> "bad"]>>
        ELSE <<[keys |-> {"name", "displayName"}, name |-> <<"B", "a">>,
                displayName |-> <<"B">>, type |-> "good"]>>]

\* The character SUPERSCRIPT TWO: a digit for str.isdigit(), not for int().
SuperscriptTwo == "sup2"

\* What the operator may type in a search box, a level box and an amount or
\* duration box.
SearchTexts == {<<>>, <<"b">>, <<"z", " ">>}

LevelTexts == {<<"2">>, <<"0">>, <<"x">>}

AmountTexts == {<<"1">>, <<"-", "1">>, <<SuperscriptTwo>>}

\* What the operator may type in the XP amount box, and the XP types.
XpTexts == {<<" ", "+", "5">>, <<"0">>, <<SuperscriptTwo>>}

XpTypes == {"Levels", "Points"}

\* What mcr.command does to a give or effect command: the server accepts it,
\* the server answers with an "Unknown ..." / "Expected ..." / "Invalid ..."
\* message, or the call raises.
GiveOutcomes == {"accepted", "rejected", "raise"}

\* The marks update_action_list puts before an effect's display name, each a
\* single character followed by a space.
GoodMark == "(good)"

BadMark == "(bad)"

\* str.replace(mark + " ", "")
RECURSIVE RemoveMark(_, _)
RemoveMark(s, mark) ==
    IF Len(s) < 2 THEN s
    ELSE IF s[1] = mark /\ s[2] = " " THEN RemoveMark(SubSeq(s, 3, Len(s)), mark)
    ELSE <<s[1]>> \o RemoveMark(Tail(s), mark)

\* str.isdigit(): every character is a digit in the Unicode sense, which
\* holds for the decimal digits and for digits such as the superscripts.
IsDigits(s) ==
    s # <<>> /\ \A i \in 1..Len(s) : IsDigit(s[i]) \/ s[i] = SuperscriptTwo

\* validate_command_inputs(name, player, amount_or_duration)
ValidateCommandInputs(name, player, amountOrDuration) ==
    name # <<>> /\ player # "" /\ IsDigits(amountOrDuration)

\* The rows update_action_list inserts for a query in the current type.
ActionRows(query, type) ==
    LET results == FuzzySearchData(query, type, 10, 30)
        entries == TypedDataGet(type)
        Row(r) ==
            IF type = "effect"
            THEN LET entry == entries[LastNamed(entries, r.label)]
                 IN <<IF entry.kind = "bad" THEN BadMark ELSE GoodMark, " ">>
                       \o r.label
            ELSE r.label
    IN IF query = <<>> THEN <<>>
       ELSE [i \in 1..Len(results) |-> Row(results[i])]

\* The application runs, with or without a session and a selected player.
InitGive ==
    /\ configFile = NoFile /\ config = NoFile
    /\ mcr \in {None, 1}
    /\ sess = [s \in SessionIds |-> IF s = mcr THEN "open" ELSE "unused"]
    /\ failed = {} /\ inflight = {}
    /\ stack = <<>> /\ running = TRUE /\ uncaught = "none"
    /\ pollPending = 0
    /\ status = StatusOf(mcr)
    /\ reconnectEnabled = TRUE /\ settingsOpen = FALSE
    /\ statusBar = "" /\ lastResult = NoResult
    /\ playerVar \in {"", "a"}
    /\ currentPlayers = IF playerVar = "" THEN <<>> ELSE <<playerVar>>
    /\ playersDisplay = PlayerText(currentPlayers)
    /\ ProbeIdle
    /\ CatalogIdle
    /\ typedData = [t \in DataTypes |-> CatalogOf(t, GiveFiles[t])]
    /\ matcher \in {NoMatcher, [l \in ProcessedLabels |-> 60]}
    /\ searchIn = NoSearch /\ searchOut = NoOutput
    /\ PanelsIdle
    /\ SessionIdle
    /\ TeleportIdle

giveFrame == <<cfgVars, mcr, sess, inflight, stack, procVars, pollPending,
               status, reconnectEnabled, settingsOpen, playerVars, probeIn,
               probeOut, searchVars, catalogVars, sessionVars, teleportVars>>

\* The operator picks "item" or "effect": on_action_type_change.
OnActionTypeChange(type) ==
    /\ MainWindowFree
    /\ cmdLog' = <<>>
    /\ actionType' = type
    /\ actionTree' = ActionRows(Strip(actionSearch), type)
    /\ actionSel' = 0
    /\ UNCHANGED <<giveFrame, failed, statusBar, lastResult, actionSearch,
                   applyEnchants, enchantSearch, enchantSuggestions, enchantSel,
                   selectedEnchantments>>

\* The operator edits the search box: update_action_list on <KeyRelease>.
UpdateActionList(text) ==
    /\ MainWindowFree
    /\ cmdLog' = <<>>
    /\ actionSearch' = text
    /\ actionTree' = ActionRows(Strip(text), actionType)
    /\ actionSel' = 0
    /\ UNCHANGED <<giveFrame, failed, statusBar, lastResult, actionType,
                   applyEnchants, enchantSearch, enchantSuggestions, enchantSel,
                   selectedEnchantments>>

\* The operator clicks a row of the search results.
SelectActionRow(i) ==
    /\ MainWindowFree
    /\ cmdLog' = <<>>
    /\ i \in 1..Len(actionTree)
    /\ actionSel' = i
    /\ UNCHANGED <<giveFrame, failed, statusBar, lastResult, actionType,
                   actionSearch, actionTree, applyEnchants, enchantSearch,
                   enchantSuggestions, enchantSel, selectedEnchantments>>

\* The operator ticks or unticks "Apply enchantments" (enabled for items).
ToggleApplyEnchants ==
    /\ MainWindowFree
    /\ cmdLog' = <<>>
    /\ actionType = "item"
    /\ applyEnchants' = ~applyEnchants
    /\ UNCHANGED <<giveFrame, failed, statusBar, lastResult, actionType,
                   actionSearch, actionTree, actionSel, enchantSearch,
                   enchantSuggestions, enchantSel, selectedEnchantments>>

\* The operator edits the enchantment search box:
\* update_enchant_suggestions on <KeyRelease>.
UpdateEnchantSuggestions(text) ==
    /\ MainWindowFree
    /\ cmdLog' = <<>>
    /\ enchantSearch' = text
    /\ enchantSuggestions' =
          IF Strip(text) = <<>> THEN <<>>
          ELSE Labels(FuzzySearchData(Strip(text), "enchantment", 5, 30))
    /\ enchantSel' = 0
    /\ UNCHANGED <<giveFrame, failed, statusBar, lastResult, actionType,
                   actionSearch, actionTree, actionSel, applyEnchants,
                   selectedEnchantments>>

\* The operator clicks a suggestion.
SelectSuggestion(i) ==
    /\ MainWindowFree
    /\ cmdLog' = <<>>
    /\ i \in 1..Len(enchantSuggestions)
    /\ enchantSel' = i
    /\ UNCHANGED <<giveFrame, failed, statusBar, lastResult, actionType,
                   actionSearch, actionTree, actionSel, applyEnchants,
                   enchantSearch, enchantSuggestions, selectedEnchantments>>

\* The level add_selected_enchantment reads from the level box.
LevelOf(text) ==
    IF ParseInt(text).ok /\ ParseInt(text).val >= 1 THEN ParseInt(text).val
    ELSE 1

\* The name add_selected_enchantment is about to add: the selected
\* suggestion, else the text of the search box.
EnchantName ==
    IF enchantSel # 0 THEN enchantSuggestions[enchantSel]
    ELSE Strip(enchantSearch)

\* A duplicate check that compares the names as they are written.
AlreadyListedExact(name) ==
    \E k \in 1..Len(selectedEnchantments) : selectedEnchantments[k].name = name

\* The list holds the name already, whatever the case of its letters.
AlreadyListed(name) ==
    \E k \in 1..Len(selectedEnchantments) :
        Lower(selectedEnchantments[k].name) = Lower(name)

\* add_selected_enchantment: the selected suggestion, else the text of the
\* search box, goes into the list unless its name is there already.
AddSelectedEnchantment(levelText) ==
    /\ MainWindowFree
    /\ cmdLog' = <<>>
    /\ LET name == EnchantName
       IN IF name = <<>>
          THEN UNCHANGED <<statusBar, selectedEnchantments, enchantSearch,
                           enchantSuggestions, enchantSel>>
          ELSE IF AlreadyListed(name)
          THEN /\ statusBar' = "warning"
               /\ UNCHANGED <<selectedEnchantments, enchantSearch,
                              enchantSuggestions, enchantSel>>
          ELSE /\ selectedEnchantments' =
                     Append(selectedEnchantments,
                            [name |-> name, level |-> LevelOf(levelText)])
               /\ enchantSearch' = <<>>
               /\ enchantSuggestions' = <<>>
               /\ enchantSel' = 0
               /\ statusBar' = "success"
    /\ UNCHANGED <<giveFrame, failed, lastResult, actionType, actionSearch,
                   actionTree, actionSel, applyEnchants>>

\* remove_enchantment(index): the button of row index + 1; an index outside
\* the list does nothing.
RemoveEnchantment(index) ==
    /\ MainWindowFree
    /\ cmdLog' = <<>>
    /\ IF 0 <= index /\ index < Len(selectedEnchantments)
       THEN /\ selectedEnchantments' =
                  SubSeq(selectedEnchantments, 1, index)
                     \o SubSeq(selectedEnchantments, index + 2,
                               Len(selectedEnchantments))
            /\ statusBar' = "success"
       ELSE UNCHANGED <<selectedEnchantments, statusBar>>
    /\ UNCHANGED <<giveFrame, failed, lastResult, actionType, actionSearch,
                   actionTree, actionSel, applyEnchants, enchantSearch,
                   enchantSuggestions, enchantSel>>

\* clear_all_enchantments
ClearAllEnchantments ==
    /\ MainWindowFree
    /\ cmdLog' = <<>>
    /\ selectedEnchantments' = <<>>
    /\ statusBar' = IF selectedEnchantments # <<>> THEN "success" ELSE "warning"
    /\ UNCHANGED <<giveFrame, failed, lastResult, actionType, actionSearch,
                   actionTree, actionSel, applyEnchants, enchantSearch,
                   enchantSuggestions, enchantSel>>

\* A command as it goes to the server: /give or /effect give, the player,
\* the identifier, the enchantments component and the amount or duration.
Command(verb, player, id, enchants, number) ==
    [verb |-> verb, player |-> player, id |-> id, enchants |-> enchants,
     number |-> number]

\* The enchantments component send_action_command builds from the list.
ComponentEnchants ==
    [k \in 1..Len(selectedEnchantments) |->
        [id |-> GetMinecraftId(selectedEnchantments[k].name, "enchantment"),
         level |-> selectedEnchantments[k].level]]

\* A give that answers every rejected command with the plain one.
DowngradesAlways(out, withEnchants) == out = "rejected"

\* The enchanted /give is followed by the plain one: the response holds
\* "Expected", "Invalid" or "Unknown" and enchantments were applied.
Downgrades(out, withEnchants) == out = "rejected" /\ withEnchants

\* What execute_rcon_command returns for what mcr.command did.
Executed(out) == ExecuteRconCommand(mcr, IF out = "raise" THEN "raise" ELSE "ok")

\* send_action_command: `number` is the text of the amount box (items) or of
\* the duration box (effects); out1 and out2 are what mcr.command does to the
\* command and to the plain /give sent after a rejected one.
SendActionCommand(numberText, out1, out2) ==
    /\ MainWindowFree
    /\ LET displayValue == actionTree[actionSel]
           number == Strip(numberText)
           name == IF actionType = "effect"
                   THEN RemoveMark(RemoveMark(displayValue, GoodMark), BadMark)
                   ELSE displayValue
           resolved == GetMinecraftId(name, actionType)
           withEnchants == applyEnchants /\ selectedEnchantments # <<>>
           plain == Command("give", playerVar, resolved, <<>>, number)
           r1 == Executed(out1)
           r2 == Executed(out2)
       IN IF actionSel = 0 \/ playerVar = ""
          THEN /\ statusBar' = "warning"
               /\ cmdLog' = <<>>
               /\ UNCHANGED <<lastResult, failed>>
          ELSE IF ~ValidateCommandInputs(name, playerVar, number)
          THEN /\ statusBar' = "warning"
               /\ cmdLog' = <<>>
               /\ UNCHANGED <<lastResult, failed>>
          ELSE IF actionType = "effect"
          THEN /\ lastResult' = r1
               /\ cmdLog' = IF mcr = None THEN <<>>
                            ELSE <<Command("effect", playerVar, resolved, <<>>,
                                           number)>>
               /\ failed' = IF r1.outcome = "raise" THEN failed \cup {mcr}
                            ELSE failed
               /\ statusBar' = IF r1.success THEN "success" ELSE "danger"
          ELSE IF mcr = None
          THEN /\ statusBar' = "danger"
               /\ cmdLog' = <<>>
               /\ UNCHANGED <<lastResult, failed>>
          ELSE LET first == IF withEnchants
                            THEN Command("give", playerVar, resolved,
                                         ComponentEnchants, number)
                            ELSE plain
               IN IF ~r1.success
                  THEN /\ lastResult' = r1
                       /\ cmdLog' = <<first>>
                       /\ failed' = failed \cup {mcr}
                       /\ statusBar' = "danger"
                  ELSE IF Downgrades(out1, withEnchants)
                  THEN /\ lastResult' = r2
                       /\ cmdLog' = <<first, plain>>
                       /\ failed' = IF r2.outcome = "raise"
                                    THEN failed \cup {mcr} ELSE failed
                       /\ statusBar' = IF r2.success THEN "warning"
                                       ELSE "danger"
                  ELSE /\ lastResult' = r1
                       /\ cmdLog' = <<first>>
                       /\ statusBar' = "success"
                       /\ UNCHANGED failed
    /\ UNCHANGED <<giveFrame, actionType, actionSearch, actionTree, actionSel,
                   applyEnchants, enchantSearch, enchantSuggestions, enchantSel,
                   selectedEnchantments>>

\* str(n) for a number that is not negative.
RECURSIVE IntText(_)
IntText(n) ==
    IF n < 10 THEN <<DigitChars[n + 1]>>
    ELSE IntText(n \div 10) \o <<DigitChars[(n % 10) + 1]>>

\* send_xp_command: the amount is read with int() and sent as that number.
SendXpCommand(amountText, typeLabel, out) ==
    /\ MainWindowFree
    /\ LET amount == ParseInt(amountText)
           r == ExecuteRconCommand(mcr, out)
       IN IF mcr = None
          THEN /\ statusBar' = "danger"
               /\ cmdLog' = <<>>
               /\ UNCHANGED <<lastResult, failed>>
          ELSE IF playerVar = "" \/ ~amount.ok \/ amount.val <= 0
          THEN /\ statusBar' = "warning"
               /\ cmdLog' = <<>>
               /\ UNCHANGED <<lastResult, failed>>
          ELSE /\ cmdLog' = <<Command("xp", playerVar,
                                      IF typeLabel = "Levels"
                                      THEN <<"levels">> ELSE <<"points">>,
                                      <<>>, IntText(amount.val))>>
               /\ lastResult' = r
               /\ failed' = IF out = "raise" THEN failed \cup {mcr} ELSE failed
               /\ statusBar' = IF r.success THEN "success" ELSE "danger"
    /\ UNCHANGED <<giveFrame, actionType, actionSearch, actionTree, actionSel,
                   applyEnchants, enchantSearch, enchantSuggestions, enchantSel,
                   selectedEnchantments>>

NextGive ==
    \/ \E t \in {"item", "effect"} : OnActionTypeChange(t)
    \/ \E text \in SearchTexts : UpdateActionList(text)
    \/ \E i \in 1..MaxCatalog : SelectActionRow(i)
    \/ ToggleApplyEnchants
    \/ \E text \in SearchTexts : UpdateEnchantSuggestions(text)
    \/ \E i \in 1..MaxCatalog : SelectSuggestion(i)
    \/ \E text \in LevelTexts : AddSelectedEnchantment(text)
    \/ \E i \in -1..MaxCatalog : RemoveEnchantment(i)
    \/ ClearAllEnchantments
    \/ \E text \in AmountTexts, out1 \in GiveOutcomes, out2 \in GiveOutcomes :
          SendActionCommand(text, out1, out2)
    \/ \E text \in XpTexts, type \in XpTypes, out \in CommandOutcomes :
          SendXpCommand(text, type, out)

SpecGive == InitGive /\ [][NextGive]_vars

-----------------------------------------------------------------------------
(* reconnect_rcon on its own, with the poll running *)

\* The configurations __init__ gets through: connect_rcon returns at once or
\* the port is a number.
ReconnectFiles ==
    {f \in InitialFiles :
        \/ ~f.found \/ f.host = <<>> \/ f.port = <<>> \/ f.password = <<>>
        \/ ParseInt(f.port).ok}

\* The application waits for events, with or without a session; the poll's
\* timer is pending.
InitReconnect ==
    /\ configFile \in ReconnectFiles
    /\ config = LoadConfig(configFile)
    /\ mcr \in {None, 1}
    /\ sess = [s \in SessionIds |-> IF s = mcr THEN "open" ELSE "unused"]
    /\ failed = {} /\ inflight = {}
    /\ stack = <<>> /\ running = TRUE /\ uncaught = "none"
    /\ pollPending = 1
    /\ status = StatusOf(mcr)
    /\ reconnectEnabled = TRUE /\ settingsOpen = FALSE
    /\ statusBar = "" /\ lastResult = NoResult
    /\ currentPlayers = <<>> /\ playerVar = ""
    /\ playersDisplay = FixedText("Loading...")
    /\ ProbeIdle /\ SearchIdle /\ CatalogIdle /\ PanelsIdle /\ SessionIdle
    /\ TeleportIdle

\* The steps a running handler takes by itself: the network calls return
\* (each has a timeout) and the code between them runs.
HandlerStep ==
    \/ ConnectRcon
    \/ \E net \in NetOutcomes : ProbeReturn(net)
    \/ \E out \in HandshakeOutcomes : HandshakeReturn(out)
    \/ ReconnectAfterConnect
    \/ UpdatePlayers
    \/ \E out \in CommandOutcomes, resp \in ListResponses : PollReturn(out, resp)

NextReconnect ==
    \/ ReconnectClick
    \/ HandlerStep
    \/ DismissDialog
    \/ TimerFire
    \/ \E s \in SessionIds : Finalize(s)

\* A handler that can take a step takes it, and the operator closes a
\* messagebox that stays or keeps coming back to the front (the poll runs in
\* front of it for a moment every 5 seconds).
SpecReconnect ==
    /\ InitReconnect
    /\ [][NextReconnect]_vars
    /\ WF_vars(HandlerStep)
    /\ SF_vars(DismissDialog)

-----------------------------------------------------------------------------
(* execute_rcon_command on a session: mcr.command reads the answer *)

\* A frame of the answer: its request id and its body.  The session sends
\* every command with request id 0; 7 is the id of some other request.
ResponseFrames ==
    {[id |-> 0, body |-> <<"a">>], [id |-> 0, body |-> <<"b">>],
     [id |-> 7, body |-> <<"x">>], [id |-> 0 - 1, body |-> <<>>]}

Answers == UNION {[1..n -> ResponseFrames] : n \in 1..MaxFrames}

\* A session is open and a command has just been sent on it.
InitSession ==
    /\ configFile = NoFile /\ config = NoFile
    /\ mcr = 1
    /\ sess = [s \in SessionIds |-> IF s = mcr THEN "open" ELSE "unused"]
    /\ failed = {} /\ inflight = {}
    /\ stack = <<>> /\ running = TRUE /\ uncaught = "none"
    /\ pollPending = 0
    /\ status = StatusOf(mcr)
    /\ reconnectEnabled = TRUE /\ settingsOpen = FALSE
    /\ statusBar = "" /\ lastResult = NoResult
    /\ currentPlayers = <<>> /\ playerVar = ""
    /\ playersDisplay = PlayerText(currentPlayers)
    /\ ProbeIdle /\ SearchIdle /\ CatalogIdle /\ PanelsIdle /\ TeleportIdle
    /\ answer \in Answers
    /\ arrived = 0
    /\ readPos = 0
    /\ rxText = <<>>
    /\ cmdOut = NoCmdOut

sessionFrame == <<cfgVars, mcr, netVars, stack, procVars, pollPending, status,
                  reconnectEnabled, settingsOpen, statusBar, playerVars,
                  probeIn, probeOut, searchVars, catalogVars, giveVars,
                  teleportVars>>

\* The next frame of the answer reaches the socket.
Deliver ==
    /\ arrived < Len(answer)
    /\ arrived' = arrived + 1
    /\ UNCHANGED <<sessionFrame, lastResult, answer, readPos, rxText, cmdOut>>

\* mcr.command (mcrcon package) reads one packet: request id -1 raises
\* "Login failed"; otherwise the body is appended, whatever the request id,
\* and the call returns the text unless the socket has more to read
\* (select with timeout 0).  execute_rcon_command returns (True, text), or
\* (False, error text) for what was raised.
ReadPacket ==
    /\ ~cmdOut.done
    /\ readPos < arrived
    /\ readPos' = readPos + 1
    /\ LET frame == answer[readPos + 1]
       IN IF frame.id = 0 - 1
          THEN /\ cmdOut' = [done |-> TRUE, success |-> FALSE,
                             text |-> <<"Login failed">>]
               /\ lastResult' = ExecuteRconCommand(mcr, "raise")
               /\ UNCHANGED rxText
          ELSE /\ rxText' = rxText \o frame.body
               /\ IF arrived > readPos + 1
                  THEN UNCHANGED <<cmdOut, lastResult>>
                  ELSE /\ cmdOut' = [done |-> TRUE, success |-> TRUE,
                                     text |-> rxText']
                       /\ lastResult' = ExecuteRconCommand(mcr, "ok")
    /\ UNCHANGED <<sessionFrame, answer, arrived>>

NextSession == Deliver \/ ReadPacket

SpecSession == InitSession /\ [][NextSession]_vars

-----------------------------------------------------------------------------
(* The teleport controls *)

\* What load_locations_from_config may give: the default location, or one
\* whose display name begins with a space (key "location__h").
LocationSets ==
    {<<[name |-> <<"M">>, coords |-> "0 64 0"]>>,
     <<[name |-> <<" ", "H">>, coords |-> "1 2 3"]>>}

\* f"Player: {name}"
PlayerLabel(name) == <<"P", ":", " ", name>>

\* f"{display_name} ({coords})"
LocationLabel(location) == location.name \o <<" ", "(", location.coords, ")">>

\* Destinations that offer every player, the selected one too.
OfferedPlayersAll(players, current) == players

\* The players refresh_teleport_options offers: all but the selected one.
OfferedPlayers(players, current) ==
    SelectSeq(players, LAMBDA name : name # current)

\* The destination map refresh_teleport_options builds: players first, then
\* the known locations.
DestinationMap(players, current, locations) ==
    LET offered == OfferedPlayers(players, current)
    IN [i \in 1..Len(offered) |->
           [label |-> PlayerLabel(offered[i]), type |-> "player",
            value |-> offered[i]]]
       \o [i \in 1..Len(locations) |->
              [label |-> LocationLabel(locations[i]), type |-> "location",
               value |-> locations[i].coords]]

HasLabel(map, label) == \E i \in 1..Len(map) : map[i].label = label

\* The destination refresh_teleport_options leaves selected: the current one
\* if it is still offered, else the first offered player, else none.
DestinationKept(map, current, dest) ==
    LET playerOptions ==
            SelectSeq(map, LAMBDA o : o.type = "player" /\ o.value # current)
    IN IF HasLabel(map, dest) THEN dest
       ELSE IF playerOptions # <<>> THEN playerOptions[1].label
       ELSE <<>>

\* refresh_teleport_options for a player list and a selected player.
RefreshTeleportOptions(players, current) ==
    LET map == DestinationMap(players, current, knownLocations)
    IN /\ teleportMap' = map
       /\ teleportDest' = DestinationKept(map, current, teleportDest)

\* The application runs, with or without a session; setup_gui has called
\* refresh_teleport_options with nobody online.
InitTeleport ==
    /\ configFile = NoFile /\ config = NoFile
    /\ mcr \in {None, 1}
    /\ sess = [s \in SessionIds |-> IF s = mcr THEN "open" ELSE "unused"]
    /\ failed = {} /\ inflight = {}
    /\ stack = <<>> /\ running = TRUE /\ uncaught = "none"
    /\ pollPending = 1
    /\ status = StatusOf(mcr)
    /\ reconnectEnabled = TRUE /\ settingsOpen = FALSE
    /\ statusBar = "" /\ lastResult = NoResult
    /\ currentPlayers = <<>> /\ playerVar = ""
    /\ playersDisplay = FixedText("Loading...")
    /\ ProbeIdle /\ SearchIdle /\ CatalogIdle /\ PanelsIdle /\ SessionIdle
    /\ knownLocations \in LocationSets
    /\ teleportDest = <<>>
    /\ teleportMap = DestinationMap(<<>>, "", knownLocations)

teleportFrame == <<cfgVars, mcr, sess, inflight, stack, procVars, pollPending,
                   status, reconnectEnabled, settingsOpen, probeIn, probeOut,
                   searchVars, catalogVars, sessionVars, knownLocations,
                   actionType, actionSearch, actionTree, actionSel,
                   applyEnchants, enchantSearch, enchantSuggestions,
                   enchantSel, selectedEnchantments>>

\* A poll finds a new player list: the part of update_players after the
\* "list" command has succeeded.
PlayersChange(resp) ==
    /\ MainWindowFree
    /\ mcr # None
    /\ LET players == NonEmptyPieces(resp)
           selected == NextSelection(playerVar, players)
       IN /\ players # currentPlayers
          /\ currentPlayers' = players
          /\ playersDisplay' = PlayerText(players)
          /\ playerVar' = selected
          /\ RefreshTeleportOptions(players, selected)
    /\ cmdLog' = <<>>
    /\ UNCHANGED <<teleportFrame, failed, statusBar, lastResult>>

\* select_player, with its refresh_teleport_options.
SelectPlayerButton(p) ==
    /\ MainWindowFree
    /\ InSeq(p, currentPlayers)
    /\ playerVar' = p
    /\ RefreshTeleportOptions(currentPlayers, p)
    /\ cmdLog' = <<>>
    /\ UNCHANGED <<teleportFrame, failed, statusBar, lastResult, currentPlayers,
                   playersDisplay>>

\* The operator picks a value of the (read-only) destination box.
ChooseDestination(i) ==
    /\ MainWindowFree
    /\ i \in 1..Len(teleportMap)
    /\ teleportDest' = teleportMap[i].label
    /\ cmdLog' = <<>>
    /\ UNCHANGED <<teleportFrame, failed, statusBar, lastResult, playerVars,
                   teleportMap>>

\* The entry of the destination map with this label.
Destination(label) ==
    teleportMap[CHOOSE i \in 1..Len(teleportMap) : teleportMap[i].label = label]

\* send_teleport_command
SendTeleportCommand(out) ==
    /\ MainWindowFree
    /\ LET label == Strip(teleportDest)
       IN IF mcr = None
          THEN /\ statusBar' = "danger"
               /\ cmdLog' = <<>>
               /\ UNCHANGED <<lastResult, failed>>
          ELSE IF playerVar = "" \/ ~HasLabel(teleportMap, label)
          THEN /\ statusBar' = "warning"
               /\ cmdLog' = <<>>
               /\ UNCHANGED <<lastResult, failed>>
          ELSE IF /\ Destination(label).type = "player"
                  /\ Destination(label).value = playerVar
          THEN /\ statusBar' = "warning"
               /\ cmdLog' = <<>>
               /\ UNCHANGED <<lastResult, failed>>
          ELSE /\ cmdLog' = <<Command("tp", playerVar, Destination(label).value,
                                      <<>>, <<>>)>>
               /\ lastResult' = ExecuteRconCommand(mcr, out)
               /\ failed' = IF out = "raise" THEN failed \cup {mcr} ELSE failed
               /\ statusBar' = IF out = "ok" THEN "success" ELSE "danger"
    /\ UNCHANGED <<teleportFrame, playerVars, teleportDest, teleportMap>>

NextTeleport ==
    \/ \E resp \in ListResponses : PlayersChange(resp)
    \/ \E p \in Players : SelectPlayerButton(p)
    \/ \E i \in 1..MaxOptions : ChooseDestination(i)
    \/ \E out \in CommandOutcomes : SendTeleportCommand(out)

SpecTeleport == InitTeleport /\ [][NextTeleport]_vars

-----------------------------------------------------------------------------
(* Properties *)

OpenSessions == {s \in SessionIds : sess[s] = "open"}

\* A connection attempt is under way in some handler.
Connecting ==
    \E i \in 1..Len(stack) : stack[i].pc \in {"connect_rcon", "probe", "handshake"}

SaveStep ==
    \E h \in HostInputs, p \in PortInputs, w \in PasswordInputs,
       io \in SaveOutcomes : SaveAndClose(h, p, w, io)

\* C1: at most one command is in flight on the session at any time: a poll
\* and an operator command, or two operator commands, never overlap.
C1_OneCommandInFlight == Cardinality(inflight) <= 1

\* An operator command is in flight while the poll's timer is pending.
C1_Witness ==
    /\ pollPending > 0
    /\ \E c \in inflight : c.cmd \in QuickCommands

\* C2: after start-up a connection attempt begins only in a step of the
\* operator's Reconnect or of saving the settings; no poll and no failed
\* command begins one.
C2_NoAutomaticConnect ==
    [][(~Connecting /\ Connecting') => (ReconnectClick \/ SaveStep)]_vars

\* The operator has started a reconnect on a session a command had failed on.
C2_Witness ==
    /\ At("probe") /\ Top.h = "reconnect"
    /\ mcr \in failed
    /\ status = "Connecting"

\* C3: execute_rcon_command never raises; without a session it returns
\* (False, "No server connection") and sends nothing; when mcr.command raises
\* it returns (False, error text); it returns True only when mcr.command
\* returned.
C3_ExecuteNeverRaises ==
    /\ ~lastResult.raised
    /\ uncaught # "Exception"
    /\ lastResult.success <=> lastResult.outcome = "ok"
    /\ lastResult.outcome = "raise" => lastResult.msg = "error text"
    /\ (lastResult # NoResult /\ ~lastResult.sent)
          => (lastResult.msg = "No server connection" /\ ~lastResult.success)
    /\ lastResult.msg = "No server connection" => ~lastResult.sent

\* An operator command has raised inside mcr.command and the handler is over.
C3_Witness ==
    /\ stack = <<>>
    /\ lastResult.outcome = "raise"
    /\ statusBar = "danger"

\* C4 as claimed: whenever a command fails, of the operator or of the poll,
\* the status is downgraded to Disconnected or to the error status.
C4_FailureDowngradesStatus ==
    [][(Cardinality(inflight') < Cardinality(inflight) /\ ~lastResult'.success)
          => status' \in {"Disconnected", "Connection Error"}]_vars

\* C5 as claimed: no command is sent on a session on which a command failed.
C5_NoCommandOnFailedSession ==
    [][\A c \in inflight' \ inflight : c.s \notin failed]_vars

\* C6: the handshake is attempted only after the probe succeeded; a failed
\* probe gives no session and no handshake; connect_rcon returns a session
\* exactly when the probe and the handshake both succeeded.
C6_HandshakeOnlyAfterProbe ==
    \A i \in 1..Len(stack) :
        LET f == stack[i]
        IN /\ f.pc = "handshake" => f.probed = "ok"
           /\ f.shook # "no" => f.probed = "ok"
           /\ f.probed = "failed" => (f.res = None /\ f.shook = "no")
           /\ f.pc = "after_connect"
                 => (f.res # None <=> (f.probed = "ok" /\ f.shook = "ok"))
           /\ f.res # None => sess[f.res] = "open"

\* Reconnect's connect_rcon is about to return after a failed probe.
C6_Witness ==
    /\ At("after_connect") /\ Top.h = "reconnect"
    /\ Top.probed = "failed"
    /\ Top.dlg = "RCON Connection Failed"

\* C7 as claimed: a DNS failure, a refused connection and a connect timeout
\* each give a different diagnostic.
C7_DistinctDiagnostics ==
    (/\ probeOut # <<>>
     /\ probeIn.net1 # probeIn.net2
     /\ {probeIn.net1, probeIn.net2} \subseteq {"dns", "refused", "timeout"})
        => probeOut[1].msg # probeOut[2].msg

\* C8 as claimed: a connection attempt whose handshake failed on the
\* credentials ends in the status AuthFailed, and one whose probe and
\* handshake succeeded in Connected.
C8_AuthFailedState ==
    [][(At("after_connect") /\ stack' # stack)
          => /\ Top.dlg = "RCON Authentication Failed" => status' = "AuthFailed"
             /\ Top.res # None => status' = "Connected"]_vars

\* C9 as claimed: a session is closed before it is replaced, so at most one
\* session is open at any time.
C9_OneOpenSession == Cardinality(OpenSessions) <= 1

\* C10 as claimed: no connection attempt raises to its caller, whatever the
\* configuration holds.
C10_ConnectNeverRaises == uncaught # "ValueError"

\* C11: connect_rcon needs the configuration file and a host, a port and a
\* password: while one of them is missing or empty, no handler has probed the
\* endpoint, made the handshake or obtained a session, and none is about to.
C11_NoAttemptWithoutSettings ==
    MissingSettings =>
        \A i \in 1..Len(stack) :
            /\ stack[i].pc \notin {"probe", "handshake"}
            /\ stack[i].probed = "no"
            /\ stack[i].shook = "no"
            /\ stack[i].res = None

\* Reconnect's connect_rcon has returned at once: the file is there, with a
\* host and a port, but without a password.
C11_Witness ==
    /\ At("after_connect") /\ Top.h = "reconnect"
    /\ config.found /\ config.host # <<>> /\ config.port # <<>>
    /\ config.password = <<>>
    /\ Top.probed = "no" /\ Top.res = None

\* The (label, score) pairs of the catalog a search call looks at.
SearchScored == Scored(searchIn.query, Labels(TypedDataGet(searchIn.dataType)))

\* How many entries of the catalog go before entry i when the catalog is
\* ordered by score, highest first, entries of equal score in catalog order.
RankOf(i) ==
    Cardinality({k \in 1..Len(SearchScored) :
                    \/ SearchScored[k].score > SearchScored[i].score
                    \/ SearchScored[k].score = SearchScored[i].score /\ k < i})

\* The reference: drop what fails min_score first, rank what is left second.
FilterThenRank ==
    NLargest(searchIn.limit,
             SelectSeq(SearchScored, LAMBDA r : r.score > searchIn.minScore))

\* C12: the result is ordered by score, highest first, and results of equal
\* score are in catalog order: the result at position p is the catalog entry
\* that p - 1 entries go before in that order.
C12_RankedByScore ==
    searchOut.done =>
        \A p \in 1..Len(searchOut.res) :
            \E i \in 1..Len(SearchScored) :
                RankOf(i) = p - 1 /\ searchOut.res[p] = SearchScored[i]

\* Two different labels of equal score were returned, in catalog order.
C12_Witness ==
    /\ searchOut.done
    /\ Len(searchOut.res) >= 2
    /\ searchOut.res[1].score = searchOut.res[2].score
    /\ searchOut.res[1].label # searchOut.res[2].label

\* C13: ranking first and filtering second returns what filtering first and
\* ranking second returns, for every query, catalog, limit and min_score.
C13_RankThenFilter ==
    searchOut.done => searchOut.res = FilterThenRank

\* The catalog is larger than the limit and the filter dropped some of the
\* top `limit` labels, but not all.
C13_Witness ==
    /\ searchOut.done
    /\ Len(SearchScored) > searchIn.limit
    /\ searchOut.res # <<>>
    /\ Len(searchOut.res) < searchIn.limit

\* C14: at most `limit` results; every label returned is a display name of
\* the catalog searched; every score returned is in 0..100 and above
\* min_score.
C14_ResultBounds ==
    searchOut.done =>
        /\ Len(searchOut.res) <= searchIn.limit
        /\ \A p \in 1..Len(searchOut.res) :
              /\ InSeq(searchOut.res[p].label,
                       Labels(TypedDataGet(searchIn.dataType)))
              /\ searchOut.res[p].score \in 0..100
              /\ searchOut.res[p].score > searchIn.minScore

\* A label that scores min_score exactly was left out though the limit had
\* room for it.
C14_Witness ==
    /\ searchOut.done
    /\ searchOut.res # <<>>
    /\ Len(searchOut.res) < searchIn.limit
    /\ searchIn.minScore > 0
    /\ \E i \in 1..Len(SearchScored) :
          SearchScored[i].score = searchIn.minScore

\* C15 as claimed: an empty query gives an empty result, for any catalog, any
\* catalog type, any limit and any min_score.
C15_EmptyQueryEmptyResult ==
    (searchOut.done /\ searchIn.query = <<>>) => searchOut.res = <<>>

\* The record of a file that becomes entry k of its catalog: the record with
\* both keys that k - 1 such records go before.
SourceRecord(raw, k) ==
    CHOOSE i \in 1..Len(raw) :
        /\ {"name", "displayName"} \subseteq raw[i].keys
        /\ Cardinality({j \in 1..i - 1 :
                           {"name", "displayName"} \subseteq raw[j].keys}) = k - 1

\* C16: load_data does not fail because a file is missing (it fails only on
\* a file that is not JSON); its result has the three catalogs, the catalog
\* of a missing file is empty, and the catalog of a file that is there has
\* the display names of its complete records, in file order.
C16_MissingFileIsEmptyCatalog ==
    /\ uncaught # "none" => \E t \in DataTypes : dataFiles[t].state = "malformed"
    /\ typedData # Unloaded =>
          /\ DOMAIN typedData = DataTypes
          /\ \A t \in DataTypes :
                LET raw == dataFiles[t].raw
                    n == Cardinality({i \in 1..Len(raw) :
                            {"name", "displayName"} \subseteq raw[i].keys})
                IN /\ dataFiles[t].state = "missing" => typedData[t] = <<>>
                   /\ Len(typedData[t]) = n
                   /\ \A k \in 1..n :
                         typedData[t][k].label
                            = raw[SourceRecord(raw, k)].displayName

\* One file is missing, and another was loaded: two entries, in file order.
C16_Witness ==
    /\ typedData # Unloaded
    /\ dataFiles["item"].state = "missing"
    /\ dataFiles["effect"].state = "present"
    /\ Len(typedData["effect"]) = 2
    /\ typedData["effect"][1].label # typedData["effect"][2].label

\* C18 as claimed: the display names of a loaded catalog are unique, and
\* get_minecraft_id gives a search result the identifier of the entry the
\* result came from.
C18_LookupGivesEntryId ==
    lookup.done =>
        LET entries == typedData[lookup.type]
        IN /\ \A i, j \in 1..Len(entries) :
                 entries[i].label = entries[j].label => i = j
           /\ lookup.id = entries[lookup.index].id

\* The identifiers of a loaded catalog.
CatalogIds(type) == {typedData[type][i].id : i \in 1..Len(typedData[type])}

\* C17 as claimed: every item, effect and enchantment identifier in a command
\* that is sent is the identifier of an entry of its catalog.
C17_OnlyCatalogIds ==
    \A k \in 1..Len(cmdLog) :
        /\ cmdLog[k].verb \in {"give", "effect"} =>
              cmdLog[k].id \in
                 CatalogIds(IF cmdLog[k].verb = "effect" THEN "effect"
                            ELSE "item")
        /\ \A e \in 1..Len(cmdLog[k].enchants) :
              cmdLog[k].enchants[e].id \in CatalogIds("enchantment")

\* C19 as claimed: a connection attempt whose login was answered with request
\* id -1 ends in AuthFailed, whatever the answer's type and body, and one
\* answered with any other request id ends connected.
C19_AuthByRequestId ==
    [][(At("after_connect") /\ stack' # stack /\ Top.reply.got)
          => /\ Top.reply.id = 0 - 1 => status' = "AuthFailed"
             /\ Top.reply.id # 0 - 1 => (mcr' # None /\ status' = "Connected")]_vars

\* The bodies of the frames that answer the request (request id 0), put
\* together in arrival order, up to the frame with request id -1.
RECURSIVE Reassembled(_)
Reassembled(frames) ==
    IF frames = <<>> THEN <<>>
    ELSE IF Head(frames).id = 0 - 1 THEN <<>>
    ELSE (IF Head(frames).id = 0 THEN Head(frames).body ELSE <<>>)
            \o Reassembled(Tail(frames))

\* C20 as claimed: the text execute returns is the bodies of all the frames
\* of the answer in arrival order, the frames with another request id left
\* out.
C20_ReassemblesFragments ==
    (cmdOut.done /\ cmdOut.success) => cmdOut.text = Reassembled(answer)

\* C21: a give action sends at most two commands; the plain /give follows
\* only an enchanted /give that returned with an "Expected", "Invalid" or
\* "Unknown" response, never one that failed in the transport and never a
\* give without enchantments; it is the same give without the component; and
\* a give that was downgraded ends with a warning (or the error of the
\* plain command), never with plain success.
C21_DowngradeOnlyAfterRejection ==
    [][(cmdLog' # <<>> /\ cmdLog'[1].verb = "give") =>
       \A n \in {t \in AmountTexts : Strip(t) = cmdLog'[1].number},
          out1 \in GiveOutcomes, out2 \in GiveOutcomes :
          SendActionCommand(n, out1, out2) =>
             /\ Len(cmdLog') <= 2
             /\ Len(cmdLog') = 2 =>
                   /\ out1 = "rejected"
                   /\ applyEnchants /\ selectedEnchantments # <<>>
                   /\ cmdLog'[1].verb = "give" /\ cmdLog'[1].enchants # <<>>
                   /\ cmdLog'[2] = [cmdLog'[1] EXCEPT !.enchants = <<>>]
                   /\ statusBar' = IF out2 = "raise" THEN "danger" ELSE "warning"
             /\ (Len(cmdLog') = 1 /\ cmdLog'[1].verb = "give"
                   /\ cmdLog'[1].enchants # <<>>)
                   => (out1 # "rejected"
                       /\ statusBar' = IF out1 = "raise" THEN "danger"
                                       ELSE "success")]_vars

\* An enchanted give was rejected and the plain give went through.
C21_Witness ==
    /\ Len(cmdLog) = 2
    /\ cmdLog[1].enchants # <<>>
    /\ cmdLog[2].enchants = <<>>
    /\ statusBar = "warning"
    /\ lastResult.success

\* The handlers that are inside schedule_player_refresh.
PollsRunning ==
    Cardinality({i \in 1..Len(stack) :
                    /\ stack[i].h \in {"init", "poll"}
                    /\ stack[i].pc \in {"update_players", "cmd_wait"}})

\* __init__ has not reached its schedule_player_refresh yet.
StartingUp ==
    \E i \in 1..Len(stack) :
        stack[i].h = "init" /\ stack[i].pc \notin {"update_players", "cmd_wait"}

\* C22: once __init__ has reached schedule_player_refresh there is exactly
\* one poll at any time, running or waiting for its timer: a poll that has
\* ended, however it ended, has set the timer of the next, and no poll is
\* set twice.
C22_OnePollAlways ==
    (running /\ ~StartingUp) => pollPending + PollsRunning = 1

\* The poll's command raised, and the next poll is pending.
C22_Witness ==
    /\ stack = <<>>
    /\ lastResult.outcome = "raise"
    /\ status = "Connection Error"
    /\ pollPending = 1

\* connect_rcon returns to its caller, which sets the status.
AttemptEnds == At("after_connect") /\ stack' # stack

\* A handler begins a connection attempt.
AttemptStarts ==
    /\ Len(stack') = Len(stack) + 1
    /\ stack'[Len(stack')].pc = "connect_rcon"

\* The poll's "list" command returns to update_players.
PollEnds == At("cmd_wait") /\ Top.h \in {"init", "poll"} /\ stack' # stack

\* C23: between events the status reads Disconnected when there is no
\* session and Connected only with one; an attempt that ends sets Connected
\* exactly when it returned a session; a poll that fails takes Connected
\* away; and nothing else changes the status, except that the start of an
\* attempt and a poll without a session replace it by a text that is not
\* Connected: so no operator command and no successful poll changes it.
C23_StatusFollowsAttempts ==
    /\ [](running /\ stack = <<>> =>
             /\ mcr = None => status = "Disconnected"
             /\ status = "Connected" => mcr # None)
    /\ [][/\ AttemptEnds =>
                status' = IF Top.res # None THEN "Connected" ELSE "Disconnected"
          /\ (PollEnds /\ ~lastResult'.success) => status' = "Connection Error"
          /\ (status' # status /\ ~AttemptEnds /\ ~PollEnds) =>
                /\ status' # "Connected"
                /\ AttemptStarts \/ (At("update_players") /\ mcr = None)
          /\ (PollEnds /\ lastResult'.success) => status' = status]_vars

\* A poll failed on the session and a later command succeeded on it: the
\* status still shows the error.
C23_Witness ==
    /\ stack = <<>>
    /\ mcr # None
    /\ status = "Connection Error"
    /\ lastResult.success

\* C24 as claimed: after every poll whose "list" command succeeded, the
\* players display shows the count and the names of the current player list,
\* whatever it showed before.
C24_DisplayShowsPlayers ==
    [][(PollEnds /\ lastResult'.success)
          => playersDisplay' = PlayerText(currentPlayers')]_vars

\* reconnect_rcon is running.
ReconnectRunning == \E i \in 1..Len(stack) : stack[i].h = "reconnect"

C26_SelectionIsOnline ==
    /\ [](\/ InSeq(playerVar, currentPlayers)
          \/ playerVar = "" /\ currentPlayers = <<>>)
    /\ [][currentPlayers' # currentPlayers =>
             playerVar' = IF InSeq(playerVar, currentPlayers') THEN playerVar
                          ELSE IF currentPlayers' # <<>> THEN currentPlayers'[1]
                          ELSE ""]_vars

\* After a successful poll the selected player is not the first of the
\* list: the selection was kept, or made by a click.
C26_Witness ==
    /\ Len(currentPlayers) = 2
    /\ playerVar = currentPlayers[2]
    /\ playersDisplay = PlayerText(currentPlayers)
    /\ lastResult.success
    /\ pollPending = 1 /\ stack = <<>>

\* C27: a teleport that is sent never has the source player as its
\* destination; send_teleport_command sends nothing without a session,
\* without a selected player, or when the chosen destination is not one of
\* the destinations offered; and the destinations offered never hold the
\* selected player.
C27_TeleportElsewhere ==
    /\ [](\A k \in 1..Len(cmdLog) :
             cmdLog[k].verb = "tp" =>
                /\ cmdLog[k].player # "" /\ cmdLog[k].id # cmdLog[k].player
                /\ mcr # None)
    /\ [](\A i \in 1..Len(teleportMap) :
             teleportMap[i].type = "player" => teleportMap[i].value # playerVar)
    /\ [][cmdLog' # <<>> =>
             /\ mcr # None /\ playerVar # ""
             /\ \E i \in 1..Len(teleportMap) :
                   /\ teleportMap[i].label = teleportDest
                   /\ teleportMap[i].value = cmdLog'[1].id]_vars

\* A player was teleported to the other player who is online.
C27_Witness ==
    /\ Len(cmdLog) = 1
    /\ cmdLog[1].verb = "tp"
    /\ InSeq(cmdLog[1].id, currentPlayers)
    /\ statusBar = "success"

\* C28 as claimed: every give, effect and xp command that is sent names a
\* player and carries a number: text that reads as an integer of at least 0
\* for a give and an effect, an integer above 0 for xp.
C28_NumericArguments ==
    \A k \in 1..Len(cmdLog) :
        /\ cmdLog[k].player # ""
        /\ ParseInt(cmdLog[k].number).ok
        /\ ParseInt(cmdLog[k].number).val >= (IF cmdLog[k].verb = "xp" THEN 1
                                              ELSE 0)

\* C29: no two entries of the enchantment list have names equal ignoring
\* case and every level is at least 1; add_selected_enchantment with a name
\* the list holds already, and remove_enchantment with an index outside the
\* list, leave the list as it was.
C29_EnchantmentListDistinct ==
    /\ [](/\ \A j \in 1..Len(selectedEnchantments),
                k \in 1..Len(selectedEnchantments) :
               j # k => Lower(selectedEnchantments[j].name)
                           # Lower(selectedEnchantments[k].name)
          /\ \A k \in 1..Len(selectedEnchantments) :
               selectedEnchantments[k].level >= 1)
    /\ [][selectedEnchantments' # selectedEnchantments =>
            /\ \A text \in LevelTexts :
                  AddSelectedEnchantment(text) => ~AlreadyListed(EnchantName)
            /\ \A i \in -1..MaxCatalog :
                  RemoveEnchantment(i) => i \in 0..Len(selectedEnchantments) - 1]_vars

\* An add was refused for a name the list holds in another case of letters.
C29_Witness ==
    /\ selectedEnchantments # <<>>
    /\ EnchantName # <<>>
    /\ AlreadyListed(EnchantName) /\ ~AlreadyListedExact(EnchantName)
    /\ statusBar = "warning"

\* C30 as claimed: a save with an empty host or port, with a port that is
\* not a number, or whose write of the file fails changes nothing: the
\* configuration in memory, the configuration file, the session and the
\* status label stay as they were and no connection attempt is started.
C30_FailedSaveChangesNothing ==
    [][settingsOpen =>
       \A hostIn \in HostInputs, portIn \in PortInputs,
          passwordIn \in PasswordInputs, io \in SaveOutcomes :
          (/\ SaveAndClose(hostIn, portIn, passwordIn, io)
           /\ \/ Strip(hostIn) = <<>> \/ Strip(portIn) = <<>>
              \/ ~ParseInt(Strip(portIn)).ok
              \/ io # "ok")
          => /\ UNCHANGED <<config, configFile, mcr, sess, status>>
             /\ stack'[Len(stack')].cont # "connect_rcon"]_vars

====
